---------------------------- MODULE Spec2Model ----------------------------
(***************************************************************************)
(* Model of the LINE AI agent: the profile extractor (PersonaAnalyzer),    *)
(* the knowledge ranker (KnowledgeBase) and the conversation turn that     *)
(* joins them (AIEngine.generate_response and its callers).                *)
(*                                                                         *)
(* Text is modelled as Python models it: a str is a sequence of Unicode    *)
(* code points, `a in b` on two strs is contiguous-subsequence containment *)
(* and `a in xs` on a list is membership by equality.  Every string        *)
(* literal of the source is written as the tuple of its code points with   *)
(* the literal itself in the comment beside it.  The user ids and message  *)
(* roles, which the code only compares for equality, are TLA+ strings.     *)
(***************************************************************************)
EXTENDS Integers, Sequences, FiniteSets, TLC

VARIABLES
  customer,            \* the Customer object analyze_message is handed (in the
                       \* conversation loop: its local variable customer)
  message,             \* the utterance of the last analyze_message call
  before,              \* history: the Customer as it was when the last call started
  returned,            \* the Customer the last analyze_message call returned
  calls,               \* history: how many analyze_message calls were made
  success_cases,       \* KnowledgeBase.success_cases, the loaded list of SuccessCase
  faqs,                \* KnowledgeBase.faqs, the loaded list of FAQ
  query,               \* the arguments of the search call
  results,             \* the list the search call returned, each record as its
                       \* position in the store
  pc,                  \* "call" before the search call, "done" after it
  db_customers,        \* database: the customers table
  db_messages,         \* database: the messages table
  db_mentioned_cases,  \* database: the mentioned_cases table
  messages,            \* the conversation loop's local list of messages
  knowledge,           \* the knowledge the last turn put into the prompt
  request,             \* the messages list the last turn sent to the chat completion
  response,            \* the reply of the last turn
  surfaced_log,        \* history: the case ids each turn put into the prompt
  ai_engine,           \* the name ai_engine of app.line_handler: "None" or "AIEngine"
  tasks,               \* the event handler coroutines started, each with its
                       \* event, its locals and the await it stands at
  replies,             \* the reply_message calls made, in order
  lstep_client,        \* the name lstep_client of app.line_handler: "None" or
                       \* "LstepClient"
  line_handler,        \* the name line_handler of main: "None" or "LineHandler"
  modules,             \* the module attributes app.ai_engine.ai_engine,
                       \* app.lstep_client.lstep_client and
                       \* app.line_handler.line_handler
  lstep,               \* the Lstep account: the friend record of each user and
                       \* the staff notifications it was sent
  http                 \* the last /webhook request and the answer to it

\* The variables of the extractor, of a search call, of a conversation.
extractVars == <<customer, message, before, returned, calls>>
searchVars == <<query, results, pc>>
storeVars == <<success_cases, faqs>>
chatVars ==
  <<db_customers, db_messages, db_mentioned_cases, messages, knowledge, request,
    response, surfaced_log>>

handlerVars == <<ai_engine, tasks, replies>>

\* The variables of the server: the names the modules bind, Lstep, /webhook.
serverVars == <<lstep_client, line_handler, modules, lstep, http>>

vars == <<extractVars, searchVars, storeVars, chatVars, handlerVars, serverVars>>

---------------------------------------------------------------------------
(* Python values *)

\* Python's None where a str may stand: a value no str equals (no str holds
\* the code point -1).
None == <<-1>>

\* bool(x) for an Optional[str]: None and "" are falsy.
Truthy(x) == x # None /\ x # << >>

\* Python's None where a list of strs may stand: a value no such list equals.
NoneList == <<None>>

\* bool(xs) for an Optional[List[str]]: None and [] are falsy.
NonEmpty(xs) == xs # NoneList /\ xs # << >>

\* `xs or []`
OrEmpty(xs) == IF NonEmpty(xs) THEN xs ELSE << >>

\* The elements of a list.
Range(xs) == {xs[i] : i \in DOMAIN xs}

\* `x in xs` for a list xs.
InList(x, xs) == \E i \in DOMAIN xs : xs[i] = x

\* `p in s` for two strs: p occurs in s as a contiguous run of code points.
InStr(p, s) ==
  \E i \in 0..(Len(s) - Len(p)) : \A j \in 1..Len(p) : s[i + j] = p[j]

\* str.lower() of one code point: ASCII and full-width Latin capitals have a
\* lower case; kana, kanji and punctuation have none.
LowerChar(ch) ==
  IF (ch >= 65 /\ ch <= 90) \/ (ch >= 65313 /\ ch <= 65338) THEN ch + 32 ELSE ch

\* str.lower()
Lower(s) == [i \in DOMAIN s |-> LowerChar(s[i])]

\* sep.join(xs)
RECURSIVE Join(_, _)
Join(sep, xs) ==
  IF xs = << >> THEN << >>
  ELSE IF Len(xs) = 1 THEN xs[1]
  ELSE xs[1] \o sep \o Join(sep, Tail(xs))

\* " "
Space == <<32>>

\* list(s) for a set s of strs: Python fixes no iteration order for a set, and
\* str hashes differ from process to process, so any order may come out.
RECURSIVE ListsOf(_)
ListsOf(S) ==
  IF S = {} THEN {<< >>}
  ELSE UNION {{<<x>> \o rest : rest \in ListsOf(S \ {x})} : x \in S}

\* max(xs) of a non-empty collection of integers.
Max(S) == CHOOSE m \in S : \A x \in S : x <= m

\* The three module attributes as the modules define them (`ai_engine:
\* Optional[AIEngine] = None`, ...), before an initialize_* call.
NoModules == [ai_engine |-> "None", lstep_client |-> "None", line_handler |-> "None"]

\* An Lstep account without friends, and no /webhook request yet.
NoLstep == [friends |-> << >>, notifications |-> << >>]

NoRequest == [request |-> << >>, status |-> 0, dispatched |-> FALSE]

\* The server part where the server is not run: the names as the import
\* statements bind them, no Lstep account, no request.
NotServing ==
  /\ lstep_client = "None"
  /\ line_handler = "None"
  /\ modules = NoModules
  /\ lstep = NoLstep
  /\ http = NoRequest

---------------------------------------------------------------------------
(* app/models.py *)

\* PersonaType: each member is its str value (Customer.Config sets
\* use_enum_values, and a str Enum member equals its value).
SIDE_WORKER == <<21103, 26989, 12527, 12540, 12459, 12540>>  \* "副業ワーカー"
CHILD_RAISING_MOM == <<23376, 32946, 12390, 12510, 12510>>  \* "子育てママ"
BUSINESS_OWNER == <<12499, 12472, 12493, 12473, 12458, 12540, 12490, 12540>>  \* "ビジネスオーナー"
SELF_ACHIEVER == <<33258, 24049, 23455, 29694, 12481, 12515, 12524, 12531, 12472, 12515, 12540>>  \* "自己実現チャレンジャー"
UNKNOWN == <<26410, 29305, 23450>>  \* "未特定"

PersonaType == {SIDE_WORKER, CHILD_RAISING_MOM, BUSINESS_OWNER, SELF_ACHIEVER, UNKNOWN}

\* ConversationStatus.INITIAL, the status a Customer is created with.
INITIAL == <<21451, 12384, 12385, 36861, 21152, 30452, 24460>>  \* "友だち追加直後"

\* Customer(user_id=...): every other field at its default.
Customer(user_id) ==
  [user_id |-> user_id, display_name |-> None, occupation |-> None,
   interest_genre |-> << >>, challenges |-> << >>, goals |-> None,
   persona |-> UNKNOWN, status |-> INITIAL, source |-> None]

---------------------------------------------------------------------------
(* app/persona_analyzer.py: the lexicon tables *)

PERSONA_KEYWORDS ==
  SIDE_WORKER :> [
      occupation |-> <<
        <<20250, 31038, 21729>>,  \* "会社員"
        <<12469, 12521, 12522, 12540, 12510, 12531>>,  \* "サラリーマン"
        <<79, 76>>,  \* "OL"
        <<27491, 31038, 21729>>,  \* "正社員"
        <<21220, 12417>>  \* "勤め"
      >>,
      keywords |-> <<
        <<21103, 26989>>,  \* "副業"
        <<21103, 21454, 20837>>,  \* "副収入"
        <<20181, 20107, 32066, 12431, 12426>>,  \* "仕事終わり"
        <<36890, 21220>>,  \* "通勤"
        <<24179, 26085>>,  \* "平日"
        <<20241, 26085>>,  \* "休日"
        <<26412, 26989>>  \* "本業"
      >>,
      challenges |-> <<
        <<26178, 38291, 12364, 28961, 12356>>,  \* "時間が無い"
        <<20181, 20107, 12392, 20001, 31435>>,  \* "仕事と両立"
        <<38553, 38291, 26178, 38291>>  \* "隙間時間"
      >>]
  @@ CHILD_RAISING_MOM :> [
      occupation |-> <<
        <<20027, 23142>>,  \* "主婦"
        <<20027, 22827>>,  \* "主夫"
        <<12510, 12510>>,  \* "ママ"
        <<12497, 12540, 12488>>,  \* "パート"
        <<23554, 26989>>  \* "専業"
      >>,
      keywords |-> <<
        <<32946, 20816>>,  \* "育児"
        <<23376, 12393, 12418>>,  \* "子ども"
        <<23376, 20379>>,  \* "子供"
        <<36196, 12385, 12419, 12435>>,  \* "赤ちゃん"
        <<20445, 32946, 22290>>,  \* "保育園"
        <<24188, 31258, 22290>>,  \* "幼稚園"
        <<22312, 23429>>,  \* "在宅"
        <<23478, 20107>>  \* "家事"
      >>,
      challenges |-> <<
        <<32946, 20816, 12392, 20001, 31435>>,  \* "育児と両立"
        <<22312, 23429, 12391>>,  \* "在宅で"
        <<23376, 12393, 12418, 12364, 12356, 12390>>  \* "子どもがいて"
      >>]
  @@ BUSINESS_OWNER :> [
      occupation |-> <<
        <<32076, 21942>>,  \* "経営"
        <<12458, 12540, 12490, 12540>>,  \* "オーナー"
        <<31038, 38263>>,  \* "社長"
        <<24441, 21729>>,  \* "役員"
        <<33258, 21942>>,  \* "自営"
        <<20491, 20154, 20107, 26989>>,  \* "個人事業"
        <<24215, 33303>>  \* "店舗"
      >>,
      keywords |-> <<
        <<38598, 23458>>,  \* "集客"
        <<22770, 19978>>,  \* "売上"
        <<12499, 12472, 12493, 12473>>,  \* "ビジネス"
        <<20107, 26989>>,  \* "事業"
        <<24215>>,  \* "店"
        <<12469, 12525, 12531>>,  \* "サロン"
        <<20250, 31038>>  \* "会社"
      >>,
      challenges |-> <<
        <<38598, 23458, 12434, 22679, 12420, 12375, 12383, 12356>>,  \* "集客を増やしたい"
        <<24195, 21578, 36027>>,  \* "広告費"
        <<26032, 35215, 39015, 23458>>  \* "新規顧客"
      >>]
  @@ SELF_ACHIEVER :> [
      occupation |-> << >>,
      keywords |-> <<
        <<33258, 30001>>,  \* "自由"
        <<21487, 33021, 24615>>,  \* "可能性"
        <<25361, 25126>>,  \* "挑戦"
        <<22818>>,  \* "夢"
        <<22909, 12365, 12394, 12371, 12392>>,  \* "好きなこと"
        <<33258, 20998, 12425, 12375, 12367>>,  \* "自分らしく"
        <<26032, 12375, 12356>>  \* "新しい"
      >>,
      challenges |-> <<
        <<33258, 20998, 12434, 22793, 12360, 12383, 12356>>,  \* "自分を変えたい"
        <<20309, 12363, 22987, 12417, 12383, 12356>>,  \* "何か始めたい"
        <<21487, 33021, 24615, 12434, 24195, 12370, 12383, 12356>>  \* "可能性を広げたい"
      >>]

GENRE_KEYWORDS == <<
  [genre |-> <<26009, 29702>>,  \* "料理"
   keywords |-> <<
      <<26009, 29702>>,  \* "料理"
      <<12524, 12471, 12500>>,  \* "レシピ"
      <<12362, 24321, 24403>>,  \* "お弁当"
      <<39135, 20107>>,  \* "食事"
      <<12463, 12483, 12461, 12531, 12464>>,  \* "クッキング"
      <<12372, 39151>>  \* "ご飯"
    >>],
  [genre |-> <<12480, 12452, 12456, 12483, 12488>>,  \* "ダイエット"
   keywords |-> <<
      <<12480, 12452, 12456, 12483, 12488>>,  \* "ダイエット"
      <<30185, 12379>>,  \* "痩せ"
      <<20307, 37325>>,  \* "体重"
      <<12508, 12487, 12451, 12513, 12452, 12463>>,  \* "ボディメイク"
      <<31563, 12488, 12524>>  \* "筋トレ"
    >>],
  [genre |-> <<32654, 23481>>,  \* "美容"
   keywords |-> <<
      <<32654, 23481>>,  \* "美容"
      <<12467, 12473, 12513>>,  \* "コスメ"
      <<12513, 12452, 12463>>,  \* "メイク"
      <<12473, 12461, 12531, 12465, 12450>>,  \* "スキンケア"
      <<32654, 32908>>  \* "美肌"
    >>],
  [genre |-> <<32946, 20816>>,  \* "育児"
   keywords |-> <<
      <<32946, 20816>>,  \* "育児"
      <<23376, 32946, 12390>>,  \* "子育て"
      <<23376, 12393, 12418>>,  \* "子ども"
      <<12510, 12510>>,  \* "ママ"
      <<36196, 12385, 12419, 12435>>  \* "赤ちゃん"
    >>],
  [genre |-> <<12499, 12472, 12493, 12473>>,  \* "ビジネス"
   keywords |-> <<
      <<12499, 12472, 12493, 12473>>,  \* "ビジネス"
      <<20181, 20107>>,  \* "仕事"
      <<12461, 12515, 12522, 12450>>,  \* "キャリア"
      <<33258, 24049, 21843, 30330>>,  \* "自己啓発"
      <<25237, 36039>>  \* "投資"
    >>],
  [genre |-> <<12495, 12531, 12489, 12513, 12452, 12489>>,  \* "ハンドメイド"
   keywords |-> <<
      <<12495, 12531, 12489, 12513, 12452, 12489>>,  \* "ハンドメイド"
      <<25163, 20316, 12426>>,  \* "手作り"
      <<12463, 12521, 12501, 12488>>,  \* "クラフト"
      <<12450, 12463, 12475, 12469, 12522, 12540>>,  \* "アクセサリー"
      <<68, 73, 89>>  \* "DIY"
    >>],
  [genre |-> <<12521, 12452, 12501, 12473, 12479, 12452, 12523>>,  \* "ライフスタイル"
   keywords |-> <<
      <<26085, 24120>>,  \* "日常"
      <<26286, 12425, 12375>>,  \* "暮らし"
      <<12452, 12531, 12486, 12522, 12450>>,  \* "インテリア"
      <<26053, 34892>>,  \* "旅行"
      <<12459, 12501, 12455>>  \* "カフェ"
    >>]
>>

CHALLENGE_KEYWORDS == <<
    <<26178, 38291, 12364, 28961, 12356>>,  \* "時間が無い"
    <<26178, 38291, 12364, 12394, 12356>>,  \* "時間がない"
    <<24537, 12375, 12356>>,  \* "忙しい"
    <<33258, 24049, 27969, 12398, 38480, 30028>>,  \* "自己流の限界"
    <<20280, 12403, 24745, 12415>>,  \* "伸び悩み"
    <<12420, 12426, 26041, 12364, 12431, 12363, 12425, 12394, 12356>>,  \* "やり方がわからない"
    <<31292, 12366, 12383, 12356>>,  \* "稼ぎたい"
    <<21454, 20837>>,  \* "収入"
    <<21454, 30410, 21270>>,  \* "収益化"
    <<21021, 24515, 32773>>,  \* "初心者"
    <<26410, 32076, 39443>>,  \* "未経験"
    <<22987, 12417, 12383, 12356>>,  \* "始めたい"
    <<19981, 23433>>,  \* "不安"
    <<33258, 20449, 12364, 12394, 12356>>,  \* "自信がない"
    <<12391, 12365, 12427, 12363>>,  \* "できるか"
    <<22312, 23429>>,  \* "在宅"
    <<23478, 12391>>,  \* "家で"
    <<12522, 12514, 12540, 12488>>,  \* "リモート"
    <<21103, 26989>>,  \* "副業"
    <<26412, 26989, 20197, 22806>>,  \* "本業以外"
    <<20001, 31435>>,  \* "両立"
    <<32946, 20816>>,  \* "育児"
    <<20181, 20107>>  \* "仕事"
  >>

patterns == <<
  [pattern |-> <<
      <<20250, 31038, 21729>>  \* "会社員"
    >>,
   occupation |-> <<20250, 31038, 21729>>],  \* r"会社員" -> "会社員"
  [pattern |-> <<
      <<12469, 12521, 12522, 12540, 12510, 12531>>  \* "サラリーマン"
    >>,
   occupation |-> <<20250, 31038, 21729>>],  \* r"サラリーマン" -> "会社員"
  [pattern |-> <<
      <<79, 76>>  \* "OL"
    >>,
   occupation |-> <<20250, 31038, 21729>>],  \* r"OL" -> "会社員"
  [pattern |-> <<
      <<20027, 23142>>,  \* "主婦"
      <<23554, 26989, 20027, 23142>>  \* "専業主婦"
    >>,
   occupation |-> <<20027, 23142>>],  \* r"主婦|専業主婦" -> "主婦"
  [pattern |-> <<
      <<20027, 22827>>  \* "主夫"
    >>,
   occupation |-> <<20027, 22827>>],  \* r"主夫" -> "主夫"
  [pattern |-> <<
      <<12497, 12540, 12488>>,  \* "パート"
      <<12450, 12523, 12496, 12452, 12488>>  \* "アルバイト"
    >>,
   occupation |-> <<12497, 12540, 12488, 12539, 12450, 12523, 12496, 12452, 12488>>],  \* r"パート|アルバイト" -> "パート・アルバイト"
  [pattern |-> <<
      <<32076, 21942, 32773>>,  \* "経営者"
      <<31038, 38263>>,  \* "社長"
      <<12458, 12540, 12490, 12540>>  \* "オーナー"
    >>,
   occupation |-> <<32076, 21942, 32773>>],  \* r"経営者|社長|オーナー" -> "経営者"
  [pattern |-> <<
      <<24441, 21729>>  \* "役員"
    >>,
   occupation |-> <<32076, 21942, 32773, 12539, 24441, 21729>>],  \* r"役員" -> "経営者・役員"
  [pattern |-> <<
      <<33258, 21942, 26989>>,  \* "自営業"
      <<20491, 20154, 20107, 26989>>  \* "個人事業"
    >>,
   occupation |-> <<33258, 21942, 26989>>],  \* r"自営業|個人事業" -> "自営業"
  [pattern |-> <<
      <<12501, 12522, 12540, 12521, 12531, 12473>>  \* "フリーランス"
    >>,
   occupation |-> <<12501, 12522, 12540, 12521, 12531, 12473>>],  \* r"フリーランス" -> "フリーランス"
  [pattern |-> <<
      <<23398, 29983>>  \* "学生"
    >>,
   occupation |-> <<23398, 29983>>]  \* r"学生" -> "学生"
>>

keyword_patterns == <<
    <<21021, 24515, 32773>>,  \* "初心者"
    <<26009, 37329>>,  \* "料金"
    <<36027, 29992>>,  \* "費用"
    <<26178, 38291>>,  \* "時間"
    <<20181, 20107>>,  \* "仕事"
    <<32946, 20816>>,  \* "育児"
    <<21103, 26989>>,  \* "副業"
    <<31292>>,  \* "稼"
    <<21454, 30410>>,  \* "収益"
    <<12501, 12457, 12525, 12527, 12540>>,  \* "フォロワー"
    <<12472, 12515, 12531, 12523>>,  \* "ジャンル"
    <<12469, 12509, 12540, 12488>>,  \* "サポート"
    <<35611, 24107>>,  \* "講師"
    <<21193, 24375, 20250>>,  \* "勉強会"
    <<20491, 21029, 30456, 35527>>,  \* "個別相談"
    <<26009, 29702>>,  \* "料理"
    <<12480, 12452, 12456, 12483, 12488>>,  \* "ダイエット"
    <<32654, 23481>>,  \* "美容"
    <<19981, 23433>>,  \* "不安"
    <<22823, 19976, 22827>>,  \* "大丈夫"
    <<12391, 12365, 12427>>,  \* "できる"
    <<20998, 21106>>,  \* "分割"
    <<25903, 25173, 12356>>  \* "支払い"
  >>

default_cases == <<
  [id |-> <<99, 97, 115, 101, 95, 48, 48, 49>>,  \* "case_001"
   genre |-> <<26009, 29702, 12539, 12362, 24321, 24403, 12524, 12471, 12500>>,  \* "料理・お弁当レシピ"
   related_personas |-> <<
      <<23376, 32946, 12390, 12510, 12510>>,  \* "子育てママ"
      <<21103, 26989, 12527, 12540, 12459, 12540>>  \* "副業ワーカー"
    >>,
   related_challenges |-> <<
      <<22312, 23429, 12391, 31292, 12366, 12383, 12356>>,  \* "在宅で稼ぎたい"
      <<32946, 20816, 12392, 20001, 31435, 12375, 12383, 12356>>,  \* "育児と両立したい"
      <<26178, 38291, 12364, 28961, 12356>>  \* "時間が無い"
    >>,
   keywords |-> <<
      <<22312, 23429>>,  \* "在宅"
      <<32946, 20816>>,  \* "育児"
      <<12362, 24321, 24403>>,  \* "お弁当"
      <<26009, 29702>>,  \* "料理"
      <<20027, 23142>>,  \* "主婦"
      <<21021, 24515, 32773>>  \* "初心者"
    >>],
  [id |-> <<99, 97, 115, 101, 95, 48, 48, 50>>,  \* "case_002"
   genre |-> <<12499, 12472, 12493, 12473, 12539, 33258, 24049, 21843, 30330>>,  \* "ビジネス・自己啓発"
   related_personas |-> <<
      <<21103, 26989, 12527, 12540, 12459, 12540>>  \* "副業ワーカー"
    >>,
   related_challenges |-> <<
      <<26178, 38291, 12364, 28961, 12356>>,  \* "時間が無い"
      <<33258, 24049, 27969, 12398, 38480, 30028>>,  \* "自己流の限界"
      <<21103, 26989, 12391, 31292, 12366, 12383, 12356>>  \* "副業で稼ぎたい"
    >>,
   keywords |-> <<
      <<21103, 26989>>,  \* "副業"
      <<20250, 31038, 21729>>,  \* "会社員"
      <<26178, 30701>>,  \* "時短"
      <<21177, 29575, 21270>>,  \* "効率化"
      <<12499, 12472, 12493, 12473>>,  \* "ビジネス"
      <<38553, 38291, 26178, 38291>>  \* "隙間時間"
    >>],
  [id |-> <<99, 97, 115, 101, 95, 48, 48, 51>>,  \* "case_003"
   genre |-> <<12480, 12452, 12456, 12483, 12488, 12539, 32654, 23481>>,  \* "ダイエット・美容"
   related_personas |-> <<
      <<23376, 32946, 12390, 12510, 12510>>,  \* "子育てママ"
      <<33258, 24049, 23455, 29694, 12481, 12515, 12524, 12531, 12472, 12515, 12540>>  \* "自己実現チャレンジャー"
    >>,
   related_challenges |-> <<
      <<21021, 24515, 32773, 12391, 19981, 23433>>,  \* "初心者で不安"
      <<20309, 12363, 12425, 22987, 12417, 12428, 12400, 12356, 12356, 12363, 12431, 12363, 12425, 12394, 12356>>  \* "何から始めればいいかわからない"
    >>,
   keywords |-> <<
      <<21021, 24515, 32773>>,  \* "初心者"
      <<12480, 12452, 12456, 12483, 12488>>,  \* "ダイエット"
      <<32654, 23481>>,  \* "美容"
      <<51, 12534, 26376>>,  \* "3ヶ月"
      <<24613, 25104, 38263>>  \* "急成長"
    >>],
  [id |-> <<99, 97, 115, 101, 95, 48, 48, 52>>,  \* "case_004"
   genre |-> <<32654, 23481, 12539, 12499, 12472, 12493, 12473>>,  \* "美容・ビジネス"
   related_personas |-> <<
      <<12499, 12472, 12493, 12473, 12458, 12540, 12490, 12540>>  \* "ビジネスオーナー"
    >>,
   related_challenges |-> <<
      <<38598, 23458, 12434, 22679, 12420, 12375, 12383, 12356>>,  \* "集客を増やしたい"
      <<24195, 21578, 36027, 12434, 25233, 12360, 12383, 12356>>,  \* "広告費を抑えたい"
      <<20107, 26989, 12395, 27963, 29992, 12375, 12383, 12356>>  \* "事業に活用したい"
    >>,
   keywords |-> <<
      <<38598, 23458>>,  \* "集客"
      <<24215, 33303>>,  \* "店舗"
      <<12469, 12525, 12531>>,  \* "サロン"
      <<12499, 12472, 12493, 12473>>,  \* "ビジネス"
      <<32076, 21942, 32773>>  \* "経営者"
    >>],
  [id |-> <<99, 97, 115, 101, 95, 48, 48, 53>>,  \* "case_005"
   genre |-> <<12495, 12531, 12489, 12513, 12452, 12489, 12539, 12463, 12521, 12501, 12488>>,  \* "ハンドメイド・クラフト"
   related_personas |-> <<
      <<23376, 32946, 12390, 12510, 12510>>,  \* "子育てママ"
      <<33258, 24049, 23455, 29694, 12481, 12515, 12524, 12531, 12472, 12515, 12540>>  \* "自己実現チャレンジャー"
    >>,
   related_challenges |-> <<
      <<22909, 12365, 12394, 12371, 12392, 12391, 31292, 12366, 12383, 12356>>,  \* "好きなことで稼ぎたい"
      <<33258, 20998, 12395, 33258, 20449, 12364, 12394, 12356>>  \* "自分に自信がない"
    >>,
   keywords |-> <<
      <<12495, 12531, 12489, 12513, 12452, 12489>>,  \* "ハンドメイド"
      <<36259, 21619>>,  \* "趣味"
      <<22909, 12365, 12394, 12371, 12392>>,  \* "好きなこと"
      <<12463, 12521, 12501, 12488>>,  \* "クラフト"
      <<36009, 22770>>  \* "販売"
    >>]
>>

default_faqs == <<
  [id |-> <<102, 97, 113, 95, 48, 48, 49>>,  \* "faq_001"
   category |-> <<12469, 12540, 12499, 12473, 20869, 23481>>,  \* "サービス内容"
   related_personas |-> <<
      <<20840, 12390>>  \* "全て"
    >>,
   \* "初心者でも大丈夫ですか？"
   question |-> <<21021, 24515, 32773, 12391, 12418, 22823, 19976, 22827, 12391, 12377, 12363, 65311>>,
   \* "もちろんです！SnsClubの生徒さんの約8割は、Instagramをほとんど触ったことがない初心者の方からスタートされています。講師がマンツーマンでサポートしますので、「フォロワーの増やし方」「投稿の作り方」といった基本から、丁寧にお教えします。"
   answer |-> <<12418, 12385, 12429, 12435, 12391, 12377, 65281, 83, 110, 115, 67, 108, 117, 98, 12398, 29983, 24466, 12373, 12435, 12398, 32004, 56, 21106, 12399, 12289, 73, 110, 115, 116, 97, 103, 114, 97, 109, 12434, 12411, 12392, 12435, 12393, 35302, 12387, 12383, 12371, 12392, 12364, 12394, 12356, 21021, 24515, 32773, 12398, 26041, 12363, 12425, 12473, 12479, 12540, 12488, 12373, 12428, 12390, 12356, 12414, 12377, 12290, 35611, 24107, 12364, 12510, 12531, 12484, 12540, 12510, 12531, 12391, 12469, 12509, 12540, 12488, 12375, 12414, 12377, 12398, 12391, 12289, 12300, 12501, 12457, 12525, 12527, 12540, 12398, 22679, 12420, 12375, 26041, 12301, 12300, 25237, 31295, 12398, 20316, 12426, 26041, 12301, 12392, 12356, 12387, 12383, 22522, 26412, 12363, 12425, 12289, 19969, 23527, 12395, 12362, 25945, 12360, 12375, 12414, 12377, 12290>>,
   keywords |-> <<
      <<21021, 24515, 32773>>,  \* "初心者"
      <<26410, 32076, 39443>>,  \* "未経験"
      <<19981, 23433>>,  \* "不安"
      <<22823, 19976, 22827>>  \* "大丈夫"
    >>],
  [id |-> <<102, 97, 113, 95, 48, 48, 50>>,  \* "faq_002"
   category |-> <<26009, 37329, 12539, 25903, 25173, 12356>>,  \* "料金・支払い"
   related_personas |-> <<
      <<20840, 12390>>  \* "全て"
    >>,
   \* "料金はいくらですか？"
   question |-> <<26009, 37329, 12399, 12356, 12367, 12425, 12391, 12377, 12363, 65311>>,
   \* "半年間のプログラムで54.8万円となっております。分割払いも可能ですので、ご安心ください。多くの生徒さんが半年以内に投資額を回収されています。詳細は個別相談で担当者が丁寧にご説明いたします。"
   answer |-> <<21322, 24180, 38291, 12398, 12503, 12525, 12464, 12521, 12512, 12391, 53, 52, 46, 56, 19975, 20870, 12392, 12394, 12387, 12390, 12362, 12426, 12414, 12377, 12290, 20998, 21106, 25173, 12356, 12418, 21487, 33021, 12391, 12377, 12398, 12391, 12289, 12372, 23433, 24515, 12367, 12384, 12373, 12356, 12290, 22810, 12367, 12398, 29983, 24466, 12373, 12435, 12364, 21322, 24180, 20197, 20869, 12395, 25237, 36039, 38989, 12434, 22238, 21454, 12373, 12428, 12390, 12356, 12414, 12377, 12290, 35443, 32048, 12399, 20491, 21029, 30456, 35527, 12391, 25285, 24403, 32773, 12364, 19969, 23527, 12395, 12372, 35500, 26126, 12356, 12383, 12375, 12414, 12377, 12290>>,
   keywords |-> <<
      <<26009, 37329>>,  \* "料金"
      <<20385, 26684>>,  \* "価格"
      <<36027, 29992>>,  \* "費用"
      <<12356, 12367, 12425>>,  \* "いくら"
      <<37329, 38989>>  \* "金額"
    >>],
  [id |-> <<102, 97, 113, 95, 48, 48, 51>>,  \* "faq_003"
   category |-> <<26009, 37329, 12539, 25903, 25173, 12356>>,  \* "料金・支払い"
   related_personas |-> <<
      <<20840, 12390>>  \* "全て"
    >>,
   \* "分割払いはできますか？"
   question |-> <<20998, 21106, 25173, 12356, 12399, 12391, 12365, 12414, 12377, 12363, 65311>>,
   \* "はい、分割払いも可能です。詳細な支払いプランについては、個別相談で担当者がご相談に応じますので、お気軽にお問い合わせください。"
   answer |-> <<12399, 12356, 12289, 20998, 21106, 25173, 12356, 12418, 21487, 33021, 12391, 12377, 12290, 35443, 32048, 12394, 25903, 25173, 12356, 12503, 12521, 12531, 12395, 12388, 12356, 12390, 12399, 12289, 20491, 21029, 30456, 35527, 12391, 25285, 24403, 32773, 12364, 12372, 30456, 35527, 12395, 24540, 12376, 12414, 12377, 12398, 12391, 12289, 12362, 27671, 36605, 12395, 12362, 21839, 12356, 21512, 12431, 12379, 12367, 12384, 12373, 12356, 12290>>,
   keywords |-> <<
      <<20998, 21106>>,  \* "分割"
      <<25903, 25173, 12356>>,  \* "支払い"
      <<12525, 12540, 12531>>,  \* "ローン"
      <<26376, 12293>>  \* "月々"
    >>],
  [id |-> <<102, 97, 113, 95, 48, 48, 52>>,  \* "faq_004"
   category |-> <<12469, 12509, 12540, 12488, 20307, 21046>>,  \* "サポート体制"
   related_personas |-> <<
      <<20840, 12390>>  \* "全て"
    >>,
   \* "どんなサポートがありますか？"
   question |-> <<12393, 12435, 12394, 12469, 12509, 12540, 12488, 12364, 12354, 12426, 12414, 12377, 12363, 65311>>,
   \* "専任の講師によるマンツーマンサポートが基本です。週に1回のZoom面談、LINEでの質問対応（24時間以内に返信）、月1回のグループセミナーなど、手厚いサポート体制を整えています。一人で悩まず、いつでも相談できる環境があります。"
   answer |-> <<23554, 20219, 12398, 35611, 24107, 12395, 12424, 12427, 12510, 12531, 12484, 12540, 12510, 12531, 12469, 12509, 12540, 12488, 12364, 22522, 26412, 12391, 12377, 12290, 36913, 12395, 49, 22238, 12398, 90, 111, 111, 109, 38754, 35527, 12289, 76, 73, 78, 69, 12391, 12398, 36074, 21839, 23550, 24540, 65288, 50, 52, 26178, 38291, 20197, 20869, 12395, 36820, 20449, 65289, 12289, 26376, 49, 22238, 12398, 12464, 12523, 12540, 12503, 12475, 12511, 12490, 12540, 12394, 12393, 12289, 25163, 21402, 12356, 12469, 12509, 12540, 12488, 20307, 21046, 12434, 25972, 12360, 12390, 12356, 12414, 12377, 12290, 19968, 20154, 12391, 24745, 12414, 12378, 12289, 12356, 12388, 12391, 12418, 30456, 35527, 12391, 12365, 12427, 29872, 22659, 12364, 12354, 12426, 12414, 12377, 12290>>,
   keywords |-> <<
      <<12469, 12509, 12540, 12488>>,  \* "サポート"
      <<35611, 24107>>,  \* "講師"
      <<30456, 35527>>,  \* "相談"
      <<36074, 21839>>  \* "質問"
    >>],
  [id |-> <<102, 97, 113, 95, 48, 48, 53>>,  \* "faq_005"
   category |-> <<26178, 38291, 12539, 20001, 31435>>,  \* "時間・両立"
   related_personas |-> <<
      <<21103, 26989, 12527, 12540, 12459, 12540>>,  \* "副業ワーカー"
      <<23376, 32946, 12390, 12510, 12510>>  \* "子育てママ"
    >>,
   \* "仕事や育児と両立できますか？"
   question |-> <<20181, 20107, 12420, 32946, 20816, 12392, 20001, 31435, 12391, 12365, 12414, 12377, 12363, 65311>>,
   \* "多くの生徒さんが、仕事や育児と両立しながら成果を出されています。1日30分〜1時間の作業時間があれば十分に取り組めます。隙間時間の使い方や効率的な運用方法も、講師がしっかりアドバイスします。"
   answer |-> <<22810, 12367, 12398, 29983, 24466, 12373, 12435, 12364, 12289, 20181, 20107, 12420, 32946, 20816, 12392, 20001, 31435, 12375, 12394, 12364, 12425, 25104, 26524, 12434, 20986, 12373, 12428, 12390, 12356, 12414, 12377, 12290, 49, 26085, 51, 48, 20998, 12316, 49, 26178, 38291, 12398, 20316, 26989, 26178, 38291, 12364, 12354, 12428, 12400, 21313, 20998, 12395, 21462, 12426, 32068, 12417, 12414, 12377, 12290, 38553, 38291, 26178, 38291, 12398, 20351, 12356, 26041, 12420, 21177, 29575, 30340, 12394, 36939, 29992, 26041, 27861, 12418, 12289, 35611, 24107, 12364, 12375, 12387, 12363, 12426, 12450, 12489, 12496, 12452, 12473, 12375, 12414, 12377, 12290>>,
   keywords |-> <<
      <<26178, 38291>>,  \* "時間"
      <<20001, 31435>>,  \* "両立"
      <<20181, 20107>>,  \* "仕事"
      <<32946, 20816>>,  \* "育児"
      <<24537, 12375, 12356>>  \* "忙しい"
    >>],
  [id |-> <<102, 97, 113, 95, 48, 48, 54>>,  \* "faq_006"
   category |-> <<25104, 26524, 12539, 23455, 32318>>,  \* "成果・実績"
   related_personas |-> <<
      <<20840, 12390>>  \* "全て"
    >>,
   \* "本当に稼げるようになりますか？"
   question |-> <<26412, 24403, 12395, 31292, 12370, 12427, 12424, 12358, 12395, 12394, 12426, 12414, 12377, 12363, 65311>>,
   \* "個人差はありますが、カリキュラムに沿って継続的に取り組んでいただければ、多くの方が成果を出されています。重要なのは、正しい方法で継続すること。講師が一人ひとりの状況に合わせたアドバイスを行い、目標達成をサポートします。"
   answer |-> <<20491, 20154, 24046, 12399, 12354, 12426, 12414, 12377, 12364, 12289, 12459, 12522, 12461, 12517, 12521, 12512, 12395, 27839, 12387, 12390, 32153, 32154, 30340, 12395, 21462, 12426, 32068, 12435, 12391, 12356, 12383, 12384, 12369, 12428, 12400, 12289, 22810, 12367, 12398, 26041, 12364, 25104, 26524, 12434, 20986, 12373, 12428, 12390, 12356, 12414, 12377, 12290, 37325, 35201, 12394, 12398, 12399, 12289, 27491, 12375, 12356, 26041, 27861, 12391, 32153, 32154, 12377, 12427, 12371, 12392, 12290, 35611, 24107, 12364, 19968, 20154, 12402, 12392, 12426, 12398, 29366, 27841, 12395, 21512, 12431, 12379, 12383, 12450, 12489, 12496, 12452, 12473, 12434, 34892, 12356, 12289, 30446, 27161, 36948, 25104, 12434, 12469, 12509, 12540, 12488, 12375, 12414, 12377, 12290>>,
   keywords |-> <<
      <<31292, 12370, 12427>>,  \* "稼げる"
      <<21454, 30410>>,  \* "収益"
      <<25104, 26524>>,  \* "成果"
      <<32080, 26524>>,  \* "結果"
      <<26412, 24403>>  \* "本当"
    >>],
  [id |-> <<102, 97, 113, 95, 48, 48, 55>>,  \* "faq_007"
   category |-> <<12469, 12540, 12499, 12473, 20869, 23481>>,  \* "サービス内容"
   related_personas |-> <<
      <<20840, 12390>>  \* "全て"
    >>,
   \* "どんなジャンルでも大丈夫ですか？"
   question |-> <<12393, 12435, 12394, 12472, 12515, 12531, 12523, 12391, 12418, 22823, 19976, 22827, 12391, 12377, 12363, 65311>>,
   \* "料理、ダイエット、美容、育児、ビジネス、ハンドメイドなど、様々なジャンルで成功されている生徒さんがいらっしゃいます。あなたの得意なこと、好きなことを活かしたジャンル選びから、講師がサポートします。"
   answer |-> <<26009, 29702, 12289, 12480, 12452, 12456, 12483, 12488, 12289, 32654, 23481, 12289, 32946, 20816, 12289, 12499, 12472, 12493, 12473, 12289, 12495, 12531, 12489, 12513, 12452, 12489, 12394, 12393, 12289, 27096, 12293, 12394, 12472, 12515, 12531, 12523, 12391, 25104, 21151, 12373, 12428, 12390, 12356, 12427, 29983, 24466, 12373, 12435, 12364, 12356, 12425, 12387, 12375, 12419, 12356, 12414, 12377, 12290, 12354, 12394, 12383, 12398, 24471, 24847, 12394, 12371, 12392, 12289, 22909, 12365, 12394, 12371, 12392, 12434, 27963, 12363, 12375, 12383, 12472, 12515, 12531, 12523, 36984, 12403, 12363, 12425, 12289, 35611, 24107, 12364, 12469, 12509, 12540, 12488, 12375, 12414, 12377, 12290>>,
   keywords |-> <<
      <<12472, 12515, 12531, 12523>>,  \* "ジャンル"
      <<20998, 37326>>,  \* "分野"
      <<12486, 12540, 12510>>,  \* "テーマ"
      <<20309, 12391, 12418>>  \* "何でも"
    >>],
  [id |-> <<102, 97, 113, 95, 48, 48, 56>>,  \* "faq_008"
   category |-> <<21193, 24375, 20250>>,  \* "勉強会"
   related_personas |-> <<
      <<20840, 12390>>  \* "全て"
    >>,
   \* "勉強会はどんな内容ですか？"
   question |-> <<21193, 24375, 20250, 12399, 12393, 12435, 12394, 20869, 23481, 12391, 12377, 12363, 65311>>,
   \* "無料の勉強会では、Instagram運用の基礎知識、フォロワーの増やし方、収益化の仕組みなどを約90分でお伝えしています。実際の成功事例も多数ご紹介しますので、「自分にもできそう」というイメージが湧くと好評です。"
   answer |-> <<28961, 26009, 12398, 21193, 24375, 20250, 12391, 12399, 12289, 73, 110, 115, 116, 97, 103, 114, 97, 109, 36939, 29992, 12398, 22522, 30990, 30693, 35672, 12289, 12501, 12457, 12525, 12527, 12540, 12398, 22679, 12420, 12375, 26041, 12289, 21454, 30410, 21270, 12398, 20181, 32068, 12415, 12394, 12393, 12434, 32004, 57, 48, 20998, 12391, 12362, 20253, 12360, 12375, 12390, 12356, 12414, 12377, 12290, 23455, 38555, 12398, 25104, 21151, 20107, 20363, 12418, 22810, 25968, 12372, 32057, 20171, 12375, 12414, 12377, 12398, 12391, 12289, 12300, 33258, 20998, 12395, 12418, 12391, 12365, 12381, 12358, 12301, 12392, 12356, 12358, 12452, 12513, 12540, 12472, 12364, 28263, 12367, 12392, 22909, 35413, 12391, 12377, 12290>>,
   keywords |-> <<
      <<21193, 24375, 20250>>,  \* "勉強会"
      <<12475, 12511, 12490, 12540>>,  \* "セミナー"
      <<20869, 23481>>,  \* "内容"
      <<20309>>  \* "何"
    >>],
  [id |-> <<102, 97, 113, 95, 48, 48, 57>>,  \* "faq_009"
   category |-> <<20491, 21029, 30456, 35527>>,  \* "個別相談"
   related_personas |-> <<
      <<20840, 12390>>  \* "全て"
    >>,
   \* "個別相談では何をしますか？"
   question |-> <<20491, 21029, 30456, 35527, 12391, 12399, 20309, 12434, 12375, 12414, 12377, 12363, 65311>>,
   \* "個別相談では、あなたの現状や目標をヒアリングし、最適な運用戦略を一緒に考えます。また、SnsClubのサービス詳細やサポート体制についても詳しくご説明します。無理な勧誘は一切ありませんので、ご安心ください。"
   answer |-> <<20491, 21029, 30456, 35527, 12391, 12399, 12289, 12354, 12394, 12383, 12398, 29694, 29366, 12420, 30446, 27161, 12434, 12498, 12450, 12522, 12531, 12464, 12375, 12289, 26368, 36969, 12394, 36939, 29992, 25126, 30053, 12434, 19968, 32210, 12395, 32771, 12360, 12414, 12377, 12290, 12414, 12383, 12289, 83, 110, 115, 67, 108, 117, 98, 12398, 12469, 12540, 12499, 12473, 35443, 32048, 12420, 12469, 12509, 12540, 12488, 20307, 21046, 12395, 12388, 12356, 12390, 12418, 35443, 12375, 12367, 12372, 35500, 26126, 12375, 12414, 12377, 12290, 28961, 29702, 12394, 21223, 35480, 12399, 19968, 20999, 12354, 12426, 12414, 12379, 12435, 12398, 12391, 12289, 12372, 23433, 24515, 12367, 12384, 12373, 12356, 12290>>,
   keywords |-> <<
      <<20491, 21029, 30456, 35527>>,  \* "個別相談"
      <<38754, 35527>>,  \* "面談"
      <<30456, 35527>>,  \* "相談"
      <<20309>>  \* "何"
    >>],
  [id |-> <<102, 97, 113, 95, 48, 49, 48>>,  \* "faq_010"
   category |-> <<12381, 12398, 20182>>,  \* "その他"
   related_personas |-> <<
      <<20840, 12390>>  \* "全て"
    >>,
   \* "顔出しは必要ですか？"
   question |-> <<38996, 20986, 12375, 12399, 24517, 35201, 12391, 12377, 12363, 65311>>,
   \* "顔出しなしでも全く問題ありません。実際に、顔出しせずにフォロワー数万人を達成している生徒さんも多くいらっしゃいます。イラストアイコンや、手元だけの写真など、様々な方法がありますので、ご安心ください。"
   answer |-> <<38996, 20986, 12375, 12394, 12375, 12391, 12418, 20840, 12367, 21839, 38988, 12354, 12426, 12414, 12379, 12435, 12290, 23455, 38555, 12395, 12289, 38996, 20986, 12375, 12379, 12378, 12395, 12501, 12457, 12525, 12527, 12540, 25968, 19975, 20154, 12434, 36948, 25104, 12375, 12390, 12356, 12427, 29983, 24466, 12373, 12435, 12418, 22810, 12367, 12356, 12425, 12387, 12375, 12419, 12356, 12414, 12377, 12290, 12452, 12521, 12473, 12488, 12450, 12452, 12467, 12531, 12420, 12289, 25163, 20803, 12384, 12369, 12398, 20889, 30495, 12394, 12393, 12289, 27096, 12293, 12394, 26041, 27861, 12364, 12354, 12426, 12414, 12377, 12398, 12391, 12289, 12372, 23433, 24515, 12367, 12384, 12373, 12356, 12290>>,
   keywords |-> <<
      <<38996, 20986, 12375>>,  \* "顔出し"
      <<38996>>,  \* "顔"
      <<36523, 12496, 12524>>,  \* "身バレ"
      <<21311, 21517>>  \* "匿名"
    >>]
>>
---------------------------------------------------------------------------
(* Utterances and field values used as inputs *)

\* The utterances used as messages, each the tuple of its code points.
utterance ==
  [company |->  \* "私は会社員です。平日は仕事で忙しいです。"  (tests/test_conversation.py:27)
     <<31169, 12399, 20250, 31038, 21729, 12391, 12377, 12290, 24179, 26085, 12399, 20181, 20107, 12391, 24537, 12375, 12356, 12391, 12377, 12290>>,
   housewife |->  \* "専業主婦をしています。子どもが2人います。"  (tests/test_conversation.py:33)
     <<23554, 26989, 20027, 23142, 12434, 12375, 12390, 12356, 12414, 12377, 12290, 23376, 12393, 12418, 12364, 50, 20154, 12356, 12414, 12377, 12290>>,
   challenges |->  \* "副業で稼ぎたいのですが、時間が無いのが悩みです。"  (tests/test_conversation.py:46)
     <<21103, 26989, 12391, 31292, 12366, 12383, 12356, 12398, 12391, 12377, 12364, 12289, 26178, 38291, 12364, 28961, 12356, 12398, 12364, 24745, 12415, 12391, 12377, 12290>>,
   genres |->  \* "料理が好きで、毎日お弁当を作っています。ダイエットにも興味があります。"  (tests/test_conversation.py:39)
     <<26009, 29702, 12364, 22909, 12365, 12391, 12289, 27598, 26085, 12362, 24321, 24403, 12434, 20316, 12387, 12390, 12356, 12414, 12377, 12290, 12480, 12452, 12456, 12483, 12488, 12395, 12418, 33288, 21619, 12364, 12354, 12426, 12414, 12377, 12290>>,
   hello |->  \* "こんにちは"  (matches no table)
     <<12371, 12435, 12395, 12385, 12399>>,
   officer |->  \* "会社の役員をしています。"  (an occupation with two indicators of one persona)
     <<20250, 31038, 12398, 24441, 21729, 12434, 12375, 12390, 12356, 12414, 12377, 12290>>,
   price |->  \* "料金はいくらですか？"  (a question)
     <<26009, 37329, 12399, 12356, 12367, 12425, 12391, 12377, 12363, 65311>>,
   time |->  \* "時間が無いのが悩みです。"  (one challenge phrase)
     <<26178, 38291, 12364, 28961, 12356, 12398, 12364, 24745, 12415, 12391, 12377, 12290>>,
   ol |->  \* "OLです。DIYが好きです。"  (Latin capitals in a pattern and in a keyword)
     <<79, 76, 12391, 12377, 12290, 68, 73, 89, 12364, 22909, 12365, 12391, 12377, 12290>>,
   ol_lower |->  \* "olです。diyが好きです。"  (the same in small letters)
     <<111, 108, 12391, 12377, 12290, 100, 105, 121, 12364, 22909, 12365, 12391, 12377, 12290>>,
   two_jobs |->  \* "パートをしている主婦です。"  (two occupation patterns, the later one of the list first)
     <<12497, 12540, 12488, 12434, 12375, 12390, 12356, 12427, 20027, 23142, 12391, 12377, 12290>>,
   balance |->  \* "仕事と育児の両立が不安です。"  (two genres and four challenge phrases)
     <<20181, 20107, 12392, 32946, 20816, 12398, 20001, 31435, 12364, 19981, 23433, 12391, 12377, 12290>>,
   tie |->  \* "子育てと仕事の話です。"  (two genres whose personas tie)
     <<23376, 32946, 12390, 12392, 20181, 20107, 12398, 35441, 12391, 12377, 12290>>,
   cook |->  \* "料理が好きです。"
     <<26009, 29702, 12364, 22909, 12365, 12391, 12377, 12290>>,
   wife |->  \* "主婦です。美容に興味があります。"
     <<20027, 23142, 12391, 12377, 12290, 32654, 23481, 12395, 33288, 21619, 12364, 12354, 12426, 12414, 12377, 12290>>,
   refund |->  \* "返金してください。"
     <<36820, 37329, 12375, 12390, 12367, 12384, 12373, 12356, 12290>>,
   dream |->  \* "自由に新しいことに挑戦したい。何か始めたいです。"  (keywords and a challenge phrase of SELF_ACHIEVER)
     <<33258, 30001, 12395, 26032, 12375, 12356, 12371, 12392, 12395, 25361, 25126, 12375, 12383, 12356, 12290, 20309, 12363, 22987, 12417, 12383, 12356, 12391, 12377, 12290>>]

\* The occupations, challenges, genres, keywords, categories and case ids
\* used as field values and as search arguments.
word ==
  [occ_company |-> <<20250, 31038, 21729>>,  \* "会社員"
   occ_housewife |-> <<20027, 23142>>,  \* "主婦"
   ch_no_time |-> <<26178, 38291, 12364, 28961, 12356>>,  \* "時間が無い"
   ch_side_income |-> <<21103, 26989, 12391, 31292, 12366, 12383, 12356>>,  \* "副業で稼ぎたい"
   ch_childcare |-> <<32946, 20816, 12392, 20001, 31435, 12375, 12383, 12356>>,  \* "育児と両立したい"
   ch_at_home |-> <<22312, 23429, 12391, 31292, 12366, 12383, 12356>>,  \* "在宅で稼ぎたい"
   g_cooking |-> <<26009, 29702>>,  \* "料理"
   g_beauty |-> <<32654, 23481>>,  \* "美容"
   g_childcare |-> <<32946, 20816>>,  \* "育児"
   kw_beginner |-> <<21021, 24515, 32773>>,  \* "初心者"
   kw_price |-> <<26009, 37329>>,  \* "料金"
   kw_side_job |-> <<21103, 26989>>,  \* "副業"
   kw_childcare |-> <<32946, 20816>>,  \* "育児"
   ch_earn |-> <<31292, 12366, 12383, 12356>>,  \* "稼ぎたい"
   ch_anxiety |-> <<19981, 23433>>,  \* "不安"
   g_Diy_mixed |-> <<68, 105, 121>>,  \* "Diy"
   kw_consult |-> <<30456, 35527>>,  \* "相談"
   kw_what |-> <<20309>>,  \* "何"
   kw_cooking |-> <<26009, 29702>>,  \* "料理"
   cat_price |-> <<26009, 37329>>,  \* "料金"
   cat_service |-> <<12469, 12540, 12499, 12473, 20869, 23481>>,  \* "サービス内容"
   empty_str |-> << >>,  \* ""
   id_case_001 |-> <<99, 97, 115, 101, 95, 48, 48, 49>>,  \* "case_001"
   id_case_002 |-> <<99, 97, 115, 101, 95, 48, 48, 50>>,  \* "case_002"
   id_case_003 |-> <<99, 97, 115, 101, 95, 48, 48, 51>>,  \* "case_003"
   id_case_101 |-> <<99, 97, 115, 101, 95, 49, 48, 49>>,  \* "case_101"
   tag_instagram_ad |-> <<73, 110, 115, 116, 97, 103, 114, 97, 109, 24195, 21578>>,  \* "Instagram広告"
   tag_housewife |-> <<20027, 23142>>,  \* "主婦"
   tag_recipe_mama |-> <<12524, 12471, 12500, 22909, 12365, 12510, 12510>>,  \* "レシピ好きママ"
   tag_owner |-> <<24215, 33303, 12458, 12540, 12490, 12540>>,  \* "店舗オーナー"
   goal_side_income |-> <<26376, 53, 19975, 20870, 12398, 21103, 21454, 20837>>]  \* "月5万円の副収入"

\* A store read from data/knowledge/success_cases.json (load() reads the file when
\* it exists): records with Latin letters in the genre, with two related
\* challenges holding the same phrase, with a keyword twice, with empty lists.
file_cases == <<
  [id |-> <<99, 97, 115, 101, 95, 49, 48, 49>>,  \* "case_101"
   genre |-> <<68, 73, 89, 12539, 67, 114, 97, 102, 116>>,  \* "DIY・Craft"
   related_personas |-> <<
      <<33258, 24049, 23455, 29694, 12481, 12515, 12524, 12531, 12472, 12515, 12540>>  \* "自己実現チャレンジャー"
    >>,
   related_challenges |-> <<
      <<22312, 23429, 12391, 31292, 12366, 12383, 12356>>,  \* "在宅で稼ぎたい"
      <<21103, 26989, 12391, 31292, 12366, 12383, 12356>>  \* "副業で稼ぎたい"
    >>,
   keywords |-> <<
      <<68, 73, 89>>,  \* "DIY"
      <<21103, 26989>>,  \* "副業"
      <<21103, 26989>>  \* "副業"
    >>],
  [id |-> <<99, 97, 115, 101, 95, 49, 48, 50>>,  \* "case_102"
   genre |-> <<26009, 29702>>,  \* "料理"
   related_personas |-> <<
      <<23376, 32946, 12390, 12510, 12510>>,  \* "子育てママ"
      <<21103, 26989, 12527, 12540, 12459, 12540>>  \* "副業ワーカー"
    >>,
   related_challenges |-> <<
      <<26178, 38291, 12364, 28961, 12356>>  \* "時間が無い"
    >>,
   keywords |-> <<
      <<26009, 29702>>,  \* "料理"
      <<32946, 20816>>  \* "育児"
    >>],
  [id |-> <<99, 97, 115, 101, 95, 49, 48, 51>>,  \* "case_103"
   genre |-> <<100, 105, 121>>,  \* "diy"
   related_personas |-> << >>,
   related_challenges |-> << >>,
   keywords |-> <<
      <<21021, 24515, 32773>>  \* "初心者"
    >>],
  [id |-> <<99, 97, 115, 101, 95, 49, 48, 52>>,  \* "case_104"
   genre |-> <<26009, 29702, 12539, 32654, 23481>>,  \* "料理・美容"
   related_personas |-> <<
      <<23376, 32946, 12390, 12510, 12510>>  \* "子育てママ"
    >>,
   related_challenges |-> <<
      <<26178, 38291, 12364, 28961, 12356>>,  \* "時間が無い"
      <<19981, 23433>>  \* "不安"
    >>,
   keywords |-> <<
      <<32946, 20816>>  \* "育児"
    >>]
>>


\* The words _get_relevant_knowledge takes as the mark of a question.
question_words == <<
    <<12391, 12377, 12363>>,  \* "ですか"
    <<12414, 12377, 12363>>,  \* "ますか"
    <<12393, 12358>>,  \* "どう"
    <<12356, 12367, 12425>>,  \* "いくら"
    <<20309>>  \* "何"
  >>

question_mark == <<63>>  \* "?"
wide_question_mark == <<65311>>  \* "？"

\* The fixed reply of generate_response when the API call raises:
\* "申し訳ありません、一時的に応答ができない状態です。少し時間をおいてから再度メッセージをお送りください🙏"
fallback_response ==
  <<30003, 12375, 35379, 12354, 12426, 12414, 12379, 12435, 12289, 19968, 26178, 30340, 12395, 24540, 31572, 12364, 12391, 12365, 12394, 12356, 29366, 24907, 12391, 12377, 12290, 23569, 12375, 26178, 38291, 12434, 12362, 12356, 12390, 12363, 12425, 20877, 24230, 12513, 12483, 12475, 12540, 12472, 12434, 12362, 36865, 12426, 12367, 12384, 12373, 12356, 128591>>

\* "テストユーザー", the display name of the local test customer.
test_display_name == <<12486, 12473, 12488, 12518, 12540, 12470, 12540>>

\* A text the chat completion returns (the model treats the reply as opaque).
generated_reply == <<40, 114, 101, 112, 108, 121, 41>>  \* "(reply)"

\* The keywords _is_handoff_request looks for.
handoff_keywords == <<
    <<20154, 12392, 35441, 12375, 12383, 12356>>,  \* "人と話したい"
    <<25285, 24403, 32773, 12392, 35441, 12375, 12383, 12356>>,  \* "担当者と話したい"
    <<12473, 12479, 12483, 12501, 12392, 35441, 12375, 12383, 12356>>,  \* "スタッフと話したい"
    <<20154, 38291, 12392, 35441, 12375, 12383, 12356>>,  \* "人間と話したい"
    <<12458, 12506, 12524, 12540, 12479, 12540>>,  \* "オペレーター"
    <<21839, 12356, 21512, 12431, 12379>>,  \* "問い合わせ"
    <<12463, 12524, 12540, 12512>>,  \* "クレーム"
    <<36820, 37329>>,  \* "返金"
    <<35299, 32004>>  \* "解約"
  >>

\* The reply of _handle_handoff:
\* "承知いたしました。担当スタッフにお繋ぎいたしますので、少々お待ちください🙏\n\nスタッフより改めてご連絡いたします。"
handoff_reply ==
  <<25215, 30693, 12356, 12383, 12375, 12414, 12375, 12383, 12290, 25285, 24403, 12473, 12479, 12483, 12501, 12395, 12362, 32331, 12366, 12356, 12383, 12375, 12414, 12377, 12398, 12391, 12289, 23569, 12293, 12362, 24453, 12385, 12367, 12384, 12373, 12356, 128591, 10, 10, 12473, 12479, 12483, 12501, 12424, 12426, 25913, 12417, 12390, 12372, 36899, 32097, 12356, 12383, 12375, 12414, 12377, 12290>>

\* The reply of _handle_text_message when ai_engine is not set:
\* "申し訳ありません、現在システムの準備中です。しばらくお待ちください🙏"
not_initialized_reply ==
  <<30003, 12375, 35379, 12354, 12426, 12414, 12379, 12435, 12289, 29694, 22312, 12471, 12473, 12486, 12512, 12398, 28310, 20633, 20013, 12391, 12377, 12290, 12375, 12400, 12425, 12367, 12362, 24453, 12385, 12367, 12384, 12373, 12356, 128591>>

\* generate_welcome_message: the text before the name part;
\* "こんにちは！"
welcome_head ==
  <<12371, 12435, 12395, 12385, 12399, 65281>>

\* what follows the display name in the name part;
\* "さん、"
name_suffix ==
  <<12373, 12435, 12289>>

\* the text after the name part:
\* "SnsClubの公式LINEに友だち追加していただき、ありがとうございます😊\n\n私はInstagram運用のサポートを担当しているAIアシスタントです。あなたの目標達成をお手伝いさせていただきますね！\n\nまず、簡単にお伺いしたいのですが、Instagramでどんなことに興味がありますか？✨"
welcome_tail ==
  <<83, 110, 115, 67, 108, 117, 98, 12398, 20844, 24335, 76, 73, 78, 69, 12395, 21451, 12384, 12385, 36861, 21152, 12375, 12390, 12356, 12383, 12384, 12365, 12289, 12354, 12426, 12364, 12392, 12358, 12372, 12374, 12356, 12414, 12377, 128522, 10, 10, 31169, 12399, 73, 110, 115, 116, 97, 103, 114, 97, 109, 36939, 29992, 12398, 12469, 12509, 12540, 12488, 12434, 25285, 24403, 12375, 12390, 12356, 12427, 65, 73, 12450, 12471, 12473, 12479, 12531, 12488, 12391, 12377, 12290, 12354, 12394, 12383, 12398, 30446, 27161, 36948, 25104, 12434, 12362, 25163, 20253, 12356, 12373, 12379, 12390, 12356, 12383, 12384, 12365, 12414, 12377, 12397, 65281, 10, 10, 12414, 12378, 12289, 31777, 21336, 12395, 12362, 20282, 12356, 12375, 12383, 12356, 12398, 12391, 12377, 12364, 12289, 73, 110, 115, 116, 97, 103, 114, 97, 109, 12391, 12393, 12435, 12394, 12371, 12392, 12395, 33288, 21619, 12364, 12354, 12426, 12414, 12377, 12363, 65311, 10024>>


\* LineHandler.ai_mode_tag, the default of __init__ and of Settings.lstep_ai_mode_tag.
ai_mode_tag == <<65, 73, 23550, 35441, 12514, 12540, 12489>>  \* "AI対話モード"

\* LstepDataMapper: TAG_TO_PERSONA and TAG_TO_GENRE as the lists of their
\* items in dict order, and the source_keywords of extract_source_from_tags.
LstepDataMapper ==
  [TAG_TO_PERSONA |-> <<  \* 会社員: 副業ワーカー, 副業: 副業ワーカー, 主婦: 子育てママ, 育児: 子育てママ, ママ: 子育てママ, 経営者: ビジネスオーナー, オーナー: ビジネスオーナー, 店舗: ビジネスオーナー
       [keyword |-> <<20250, 31038, 21729>>, persona |-> <<21103, 26989, 12527, 12540, 12459, 12540>>],
       [keyword |-> <<21103, 26989>>, persona |-> <<21103, 26989, 12527, 12540, 12459, 12540>>],
       [keyword |-> <<20027, 23142>>, persona |-> <<23376, 32946, 12390, 12510, 12510>>],
       [keyword |-> <<32946, 20816>>, persona |-> <<23376, 32946, 12390, 12510, 12510>>],
       [keyword |-> <<12510, 12510>>, persona |-> <<23376, 32946, 12390, 12510, 12510>>],
       [keyword |-> <<32076, 21942, 32773>>, persona |-> <<12499, 12472, 12493, 12473, 12458, 12540, 12490, 12540>>],
       [keyword |-> <<12458, 12540, 12490, 12540>>, persona |-> <<12499, 12472, 12493, 12473, 12458, 12540, 12490, 12540>>],
       [keyword |-> <<24215, 33303>>, persona |-> <<12499, 12472, 12493, 12473, 12458, 12540, 12490, 12540>>]>>,
   TAG_TO_GENRE |-> <<  \* 料理: 料理, レシピ: 料理, ダイエット: ダイエット, 美容: 美容, コスメ: 美容, 育児: 育児, 子育て: 育児, ビジネス: ビジネス
       [keyword |-> <<26009, 29702>>, genre |-> <<26009, 29702>>],
       [keyword |-> <<12524, 12471, 12500>>, genre |-> <<26009, 29702>>],
       [keyword |-> <<12480, 12452, 12456, 12483, 12488>>, genre |-> <<12480, 12452, 12456, 12483, 12488>>],
       [keyword |-> <<32654, 23481>>, genre |-> <<32654, 23481>>],
       [keyword |-> <<12467, 12473, 12513>>, genre |-> <<32654, 23481>>],
       [keyword |-> <<32946, 20816>>, genre |-> <<32946, 20816>>],
       [keyword |-> <<23376, 32946, 12390>>, genre |-> <<32946, 20816>>],
       [keyword |-> <<12499, 12472, 12493, 12473>>, genre |-> <<12499, 12472, 12493, 12473>>]>>,
   source_keywords |-> <<  \* Instagram, X, Twitter, Meta, 広告, 紹介
       <<73, 110, 115, 116, 97, 103, 114, 97, 109>>,
       <<88>>,
       <<84, 119, 105, 116, 116, 101, 114>>,
       <<77, 101, 116, 97>>,
       <<24195, 21578>>,
       <<32057, 20171>>>>]

\* The prefixes of the tag names _sync_to_lstep builds, f"ペルソナ:{persona_value}"
\* and f"興味:{genre}".
sync_prefix ==
  [persona |-> <<12506, 12523, 12477, 12490, 58>>,  \* "ペルソナ:"
   genre |-> <<33288, 21619, 58>>]  \* "興味:"

---------------------------------------------------------------------------
(* app/persona_analyzer.py: PersonaAnalyzer *)

\* The keys of PERSONA_KEYWORDS (and of the scores dict) in insertion order,
\* which is the order a dict is iterated in.
PersonaOrder == <<SIDE_WORKER, CHILD_RAISING_MOM, BUSINESS_OWNER, SELF_ACHIEVER>>

\* re.search(pattern, message) for a pattern that is an alternation of
\* literals: some alternative occurs in the message.
re_search(pattern, msg) == \E i \in DOMAIN pattern : InStr(pattern[i], msg)

\* Variant of _extract_occupation: the loop has no early return, so the label
\* of the last pattern found is what comes out.
ExtractOccupationLastMatch(msg) ==
  LET hits == {i \in DOMAIN patterns : re_search(patterns[i].pattern, msg)}
  IN  IF hits = {} THEN None
      ELSE patterns[CHOOSE i \in hits : \A j \in hits : j <= i].occupation

\* _extract_occupation: the label of the first pattern, in list order, that
\* is found in the message; None when no pattern is found.
_extract_occupation(msg) ==
  LET hits == {i \in DOMAIN patterns : re_search(patterns[i].pattern, msg)}
  IN  IF hits = {} THEN None
      ELSE patterns[CHOOSE i \in hits : \A j \in hits : i <= j].occupation

\* Variant of GenreFound: the keyword is looked for in message.lower() only.
GenreFoundLowerOnly(entry, msg) ==
  \E k \in DOMAIN entry.keywords : InStr(entry.keywords[k], Lower(msg))

\* The loop over one genre's keywords: the keyword occurs in the message or
\* in message.lower().
GenreFound(entry, msg) ==
  \E k \in DOMAIN entry.keywords :
     InStr(entry.keywords[k], msg) \/ InStr(entry.keywords[k], Lower(msg))

\* _extract_genres: the genres, in table order, with a keyword in the message.
RECURSIVE ExtractGenresFrom(_, _)
ExtractGenresFrom(i, msg) ==
  IF i > Len(GENRE_KEYWORDS) THEN << >>
  ELSE (IF GenreFound(GENRE_KEYWORDS[i], msg) THEN <<GENRE_KEYWORDS[i].genre>> ELSE << >>)
       \o ExtractGenresFrom(i + 1, msg)

_extract_genres(msg) == ExtractGenresFrom(1, msg)

\* _extract_challenges: the phrases of CHALLENGE_KEYWORDS, in list order,
\* that occur in the message.
_extract_challenges(msg) ==
  SelectSeq(CHALLENGE_KEYWORDS, LAMBDA ch : InStr(ch, msg))

\* Variant of AddPerHit: a hit is counted when the table entry is in the
\* text or the text is in the table entry.
RECURSIVE AddPerHitEitherWay(_, _, _)
AddPerHitEitherWay(xs, text, weight) ==
  IF xs = << >> THEN 0
  ELSE (IF InStr(Head(xs), text) \/ InStr(text, Head(xs)) THEN weight ELSE 0)
       + AddPerHitEitherWay(Tail(xs), text, weight)

\* The loop `for x in xs: if x in text: score += weight`.
RECURSIVE AddPerHit(_, _, _)
AddPerHit(xs, text, weight) ==
  IF xs = << >> THEN 0
  ELSE (IF InStr(Head(xs), text) THEN weight ELSE 0) + AddPerHit(Tail(xs), text, weight)

\* The loop with `break`: the weight is added once, at the first hit.
RECURSIVE AddFirstHit(_, _, _)
AddFirstHit(xs, text, weight) ==
  IF xs = << >> THEN 0
  ELSE IF InStr(Head(xs), text) THEN weight
  ELSE AddFirstHit(Tail(xs), text, weight)

\* The occupation block of _estimate_persona, for one persona.
OccupationScore(c, p) ==
  IF Truthy(c.occupation)
  THEN AddFirstHit(PERSONA_KEYWORDS[p].occupation, c.occupation, 5)
  ELSE 0

\* The interest-genre block of _estimate_persona, for one persona.
GenreScore(c, p) ==
  IF NonEmpty(c.interest_genre)
  THEN AddPerHit(PERSONA_KEYWORDS[p].keywords, Join(Space, c.interest_genre), 2)
  ELSE 0

\* The challenge block of _estimate_persona, for one persona.
ChallengeScore(c, p) ==
  IF NonEmpty(c.challenges)
  THEN AddPerHit(PERSONA_KEYWORDS[p].challenges, Join(Space, c.challenges), 3)
  ELSE 0

\* The scores dict of _estimate_persona when the three blocks have run.
Scores(c) ==
  [p \in Range(PersonaOrder) |-> OccupationScore(c, p) + GenreScore(c, p) + ChallengeScore(c, p)]

\* Variant of SelectPersona: the last persona with the maximum score wins
\* (the selection loop run over the dict from its end).
SelectLastMax(scores) ==
  LET max_score == Max({scores[p] : p \in DOMAIN scores})
      top == {i \in DOMAIN PersonaOrder : scores[PersonaOrder[i]] = max_score}
  IN  IF max_score > 0
      THEN PersonaOrder[CHOOSE i \in top : \A j \in top : j <= i]
      ELSE UNKNOWN

\* The selection loop of _estimate_persona: the first persona, in dict
\* order, whose score is max(scores.values()), if that is above 0.
SelectPersona(scores) ==
  LET max_score == Max({scores[p] : p \in DOMAIN scores})
      top == {i \in DOMAIN PersonaOrder : scores[PersonaOrder[i]] = max_score}
  IN  IF max_score > 0
      THEN PersonaOrder[CHOOSE i \in top : \A j \in top : i <= j]
      ELSE UNKNOWN

_estimate_persona(c) == SelectPersona(Scores(c))

\* Variant of SetOccupation: the occupation found in the message is taken
\* whether or not one is set (`if occupation:`).
SetOccupationLastWins(msg, c) ==
  LET occupation == _extract_occupation(msg)
  IN  IF Truthy(occupation) THEN [c EXCEPT !.occupation = occupation] ELSE c

\* Variant of PassedObject: analyze_message works on a copy of the Customer
\* (`customer = customer.model_copy()` first), so the caller's object stays
\* as it was.
PassedObjectCopied(c, result) == c

\* The object the caller passed, when analyze_message has returned: every
\* update is an assignment to an attribute of that object
\* (`customer.occupation = occupation`, ...), and `return customer` returns it.
PassedObject(c, result) == result

\* analyze_message, the occupation step.
SetOccupation(msg, c) ==
  LET occupation == _extract_occupation(msg)
  IN  IF Truthy(occupation) /\ ~Truthy(c.occupation)
      THEN [c EXCEPT !.occupation = occupation]
      ELSE c

\* Variant of UnionLists: the union is assigned without the `if genres:`
\* guard, also when the message holds nothing.
UnionListsNoGuard(found, field) == ListsOf(Range(found) \cup Range(field))

\* Variant of UnionLists: the field is set to what the message holds
\* (`customer.interest_genre = genres`).
ReplaceLists(found, field) ==
  IF NonEmpty(found) THEN ListsOf(Range(found)) ELSE {field}

\* analyze_message, the genre and challenge steps: the lists the field may
\* be set to.
UnionLists(found, field) ==
  IF NonEmpty(found) THEN ListsOf(Range(OrEmpty(field)) \cup Range(found)) ELSE {field}

\* Variant of SetPersona: the persona is estimated on every call.
SetPersonaAlways(c) == [c EXCEPT !.persona = _estimate_persona(c)]

\* analyze_message, the persona step.
SetPersona(c) ==
  IF c.persona = UNKNOWN THEN [c EXCEPT !.persona = _estimate_persona(c)] ELSE c

\* analyze_message(message, customer): the Customer objects the call may
\* return (one per order the two rebuilt lists may come out in).  The
\* object returned is the object passed in, updated in place.
analyze_message(msg, c) ==
  LET c1 == SetOccupation(msg, c)
  IN  { SetPersona([c1 EXCEPT !.interest_genre = g, !.challenges = ch]) :
          g \in UnionLists(_extract_genres(msg), c1.interest_genre),
          ch \in UnionLists(_extract_challenges(msg), c1.challenges) }

---------------------------------------------------------------------------
(* The profile extractor on its own: analyze_message called again and again *)
(* on one Customer object, as TestPersonaAnalyzer and generate_response do. *)

\* How many analyze_message calls a run makes.
MaxCalls == 2

\* The utterances a call is made with.
Utterances ==
  {utterance.company, utterance.housewife, utterance.officer, utterance.tie, utterance.hello}

\* The Customer objects a run starts from: the fresh profile of the tests'
\* setup_method, the two profiles the tests fill in by hand, and profiles
\* whose persona was set before the occupation was known.
InitialCustomers ==
  {Customer("test_user_001"),
   [Customer("test_user_001") EXCEPT !.occupation = word.occ_company,
                                     !.challenges = <<word.ch_no_time, word.ch_side_income>>],
   [Customer("test_user_001") EXCEPT !.occupation = word.occ_housewife,
                                     !.challenges = <<word.ch_childcare, word.ch_at_home>>]}
  \cup {[Customer("test_user_001") EXCEPT !.persona = p, !.interest_genre = <<word.g_childcare>>] :
          p \in PersonaType \ {UNKNOWN}}

InitExtract ==
  /\ customer \in InitialCustomers
  /\ message = None
  /\ before = customer
  /\ returned = customer
  /\ calls = 0
  /\ success_cases = default_cases
  /\ faqs = default_faqs
  /\ query = << >>
  /\ results = << >>
  /\ pc = "idle"
  /\ db_customers = << >>
  /\ db_messages = << >>
  /\ db_mentioned_cases = << >>
  /\ messages = << >>
  /\ knowledge = [cases |-> << >>, faqs |-> << >>]
  /\ request = << >>
  /\ response = None
  /\ surfaced_log = << >>
  /\ ai_engine = "None"
  /\ tasks = << >>
  /\ replies = << >>
  /\ NotServing

\* customer = persona_analyzer.analyze_message(message, customer): the call
\* works on the caller's object and returns it.
AnalyzeMessage(msg) ==
  /\ calls < MaxCalls
  /\ \E result \in analyze_message(msg, customer) :
       /\ customer' = PassedObject(customer, result)
       /\ returned' = result
  /\ message' = msg
  /\ before' = customer
  /\ calls' = calls + 1
  /\ UNCHANGED <<searchVars, storeVars, chatVars, handlerVars, serverVars>>

NextExtract == \E msg \in Utterances : AnalyzeMessage(msg)

SpecExtract == InitExtract /\ [][NextExtract]_vars


---------------------------------------------------------------------------
(* One analyze_message call on its own, for any utterance and profile. *)

\* The utterances of the single call.
AnalyzeUtterances ==
  {utterance.company, utterance.housewife, utterance.genres, utterance.challenges, utterance.hello, utterance.officer, utterance.ol,
   utterance.ol_lower, utterance.two_jobs, utterance.balance, utterance.time, utterance.tie}

\* The Customer objects of the single call: those of InitialCustomers, and
\* a customer as _handle_follow stores it and a later turn has filled it.
AnalyzeCustomers ==
  InitialCustomers
    \cup {[Customer("test_user_001") EXCEPT !.display_name = test_display_name],
          [Customer("test_user_001") EXCEPT !.display_name = test_display_name,
                                            !.occupation = word.occ_housewife,
                                            !.interest_genre = <<word.g_childcare, word.g_cooking>>,
                                            !.challenges = <<word.ch_no_time>>,
                                            !.persona = CHILD_RAISING_MOM]}

InitAnalyze ==
  /\ customer \in AnalyzeCustomers
  /\ message \in AnalyzeUtterances
  /\ before = customer
  /\ returned = customer
  /\ calls = 0
  /\ success_cases = default_cases
  /\ faqs = default_faqs
  /\ query = << >>
  /\ results = << >>
  /\ pc = "analyze"
  /\ db_customers = << >>
  /\ db_messages = << >>
  /\ db_mentioned_cases = << >>
  /\ messages = << >>
  /\ knowledge = [cases |-> << >>, faqs |-> << >>]
  /\ request = << >>
  /\ response = None
  /\ surfaced_log = << >>
  /\ ai_engine = "None"
  /\ tasks = << >>
  /\ replies = << >>
  /\ NotServing

\* persona_analyzer.analyze_message(message, customer), once.
AnalyzeOnce ==
  /\ pc = "analyze"
  /\ \E result \in analyze_message(message, customer) :
       /\ customer' = PassedObject(customer, result)
       /\ returned' = result
  /\ before' = customer
  /\ calls' = calls + 1
  /\ pc' = "analyzed"
  /\ UNCHANGED <<message, query, results, storeVars, chatVars, handlerVars, serverVars>>

NextAnalyze == AnalyzeOnce

SpecAnalyze == InitAnalyze /\ [][NextAnalyze]_vars

---------------------------------------------------------------------------
(* The profile extractor driven from a fresh profile only: every profile of *)
(* a run is one that analyze_message calls alone have built.                *)

\* The utterances of these calls: with and without an occupation, genres,
\* challenges, and one made of keywords and a challenge phrase that
\* PERSONA_KEYWORDS lists for SELF_ACHIEVER.
FreshUtterances ==
  {utterance.company, utterance.housewife, utterance.cook, utterance.challenges,
   utterance.hello, utterance.dream, utterance.wife}

\* Customer(user_id=...) as setup_method of the tests and get_customer's
\* callers create it.
InitFresh ==
  /\ customer = Customer("test_user_001")
  /\ message = None
  /\ before = customer
  /\ returned = customer
  /\ calls = 0
  /\ success_cases = default_cases
  /\ faqs = default_faqs
  /\ query = << >>
  /\ results = << >>
  /\ pc = "idle"
  /\ db_customers = << >>
  /\ db_messages = << >>
  /\ db_mentioned_cases = << >>
  /\ messages = << >>
  /\ knowledge = [cases |-> << >>, faqs |-> << >>]
  /\ request = << >>
  /\ response = None
  /\ surfaced_log = << >>
  /\ ai_engine = "None"
  /\ tasks = << >>
  /\ replies = << >>
  /\ NotServing

NextFresh == \E msg \in FreshUtterances : AnalyzeMessage(msg)

SpecFresh == InitFresh /\ [][NextFresh]_vars
---------------------------------------------------------------------------
(* app/knowledge_base.py: KnowledgeBase.search_success_cases, search_faqs *)

\* Variant of Excluded: only the first id of exclude_ids is looked at.
ExcludedFirstIdOnly(case, exclude_ids) ==
  NonEmpty(exclude_ids) /\ case.id = exclude_ids[1]

\* `if case.id in exclude_ids: continue`, with exclude_ids = exclude_ids or [].
Excluded(case, exclude_ids) == InList(case.id, OrEmpty(exclude_ids))

\* `if persona and persona in case.related_personas: score += 3`
PersonaPoints(case, persona) ==
  IF Truthy(persona) /\ InList(persona, case.related_personas) THEN 3 ELSE 0

\* `any(challenge in c for c in case.related_challenges)`
ChallengeHit(case, challenge) ==
  \E i \in DOMAIN case.related_challenges : InStr(challenge, case.related_challenges[i])

\* `if challenges: for challenge in challenges: if any(...): score += 2`
ChallengePoints(case, challenges) ==
  IF NonEmpty(challenges)
  THEN 2 * Len(SelectSeq(challenges, LAMBDA ch : ChallengeHit(case, ch)))
  ELSE 0

\* Variant of GenrePoints: the comparison keeps the case of the letters
\* (`genre in case.genre`).
GenrePointsCaseSensitive(case, genre) ==
  IF Truthy(genre) /\ InStr(genre, case.genre) THEN 2 ELSE 0

\* `if genre and genre.lower() in case.genre.lower(): score += 2`
GenrePoints(case, genre) ==
  IF Truthy(genre) /\ InStr(Lower(genre), Lower(case.genre)) THEN 2 ELSE 0

\* `if keywords: for keyword in keywords: if keyword in case.keywords: score += 1`
KeywordPoints(case, keywords) ==
  IF NonEmpty(keywords)
  THEN Len(SelectSeq(keywords, LAMBDA k : InList(k, case.keywords)))
  ELSE 0

\* The score search_success_cases gives one record.
CaseScore(case, q) ==
  PersonaPoints(case, q.persona) + ChallengePoints(case, q.challenges)
    + GenrePoints(case, q.genre) + KeywordPoints(case, q.keywords)

\* Variant of FaqKeywordPoints: the three tests as an if / elif / elif chain.
FaqKeywordPointsElif(faq, keyword) ==
  IF InStr(keyword, faq.question) THEN 3
  ELSE IF InList(keyword, faq.keywords) THEN 2
  ELSE IF InStr(keyword, faq.answer) THEN 1
  ELSE 0

\* search_faqs, the keyword loop for one keyword: three independent ifs.
FaqKeywordPoints(faq, keyword) ==
  (IF InStr(keyword, faq.question) THEN 3 ELSE 0)
    + (IF InList(keyword, faq.keywords) THEN 2 ELSE 0)
    + (IF InStr(keyword, faq.answer) THEN 1 ELSE 0)

RECURSIVE FaqKeywordsPoints(_, _)
FaqKeywordsPoints(faq, keywords) ==
  IF keywords = << >> THEN 0
  ELSE FaqKeywordPoints(faq, Head(keywords)) + FaqKeywordsPoints(faq, Tail(keywords))

\* The score search_faqs gives one record.
FaqScore(faq, q) ==
  (IF Truthy(q.category) /\ InStr(q.category, faq.category) THEN 2 ELSE 0)
    + (IF NonEmpty(q.keywords) THEN FaqKeywordsPoints(faq, q.keywords) ELSE 0)

\* `if score > 0: results.append((score, record))`
Kept(score) == score > 0

\* The results list when the loop over the store has run: (score, record)
\* pairs in store order.  A record is written as its position in the store:
\* the functions return the store's own objects.
RECURSIVE ScanCases(_, _, _)
ScanCases(store, q, i) ==
  IF i > Len(store) THEN << >>
  ELSE (IF ~Excluded(store[i], q.exclude_ids) /\ Kept(CaseScore(store[i], q))
        THEN <<[score |-> CaseScore(store[i], q), at |-> i]>>
        ELSE << >>)
       \o ScanCases(store, q, i + 1)

RECURSIVE ScanFaqs(_, _, _)
ScanFaqs(store, q, i) ==
  IF i > Len(store) THEN << >>
  ELSE (IF Kept(FaqScore(store[i], q))
        THEN <<[score |-> FaqScore(store[i], q), at |-> i]>>
        ELSE << >>)
       \o ScanFaqs(store, q, i + 1)

\* Variant of InsertDesc: the pair goes ahead of the pairs with its own
\* score, as a sort that does not keep the order of equal keys may put it.
InsertDescAhead(pair, sorted) ==
  LET n == Cardinality({i \in DOMAIN sorted : sorted[i].score > pair.score})
  IN  SubSeq(sorted, 1, n) \o <<pair>> \o SubSeq(sorted, n + 1, Len(sorted))

\* One pair put into a list that is in descending score order: behind every
\* pair whose score is at least its own.
InsertDesc(pair, sorted) ==
  LET n == Cardinality({i \in DOMAIN sorted : sorted[i].score >= pair.score})
  IN  SubSeq(sorted, 1, n) \o <<pair>> \o SubSeq(sorted, n + 1, Len(sorted))

\* results.sort(key=lambda x: x[0], reverse=True): list.sort is stable, and
\* with reverse=True pairs of equal score keep their order.
RECURSIVE SortByScore(_)
SortByScore(pairs) ==
  IF pairs = << >> THEN << >>
  ELSE InsertDesc(pairs[Len(pairs)], SortByScore(SubSeq(pairs, 1, Len(pairs) - 1)))

\* Variant of UpTo: one element more (`xs[:limit + 1]`).
UpToInclusive(xs, limit) ==
  SubSeq(xs, 1, IF limit + 1 < Len(xs) THEN limit + 1 ELSE Len(xs))

\* xs[:limit]
UpTo(xs, limit) ==
  IF limit >= 0
  THEN SubSeq(xs, 1, IF limit < Len(xs) THEN limit ELSE Len(xs))
  ELSE SubSeq(xs, 1, IF Len(xs) + limit > 0 THEN Len(xs) + limit ELSE 0)

\* [record for _, record in results[:limit]]
Records(pairs, limit) == [i \in DOMAIN UpTo(pairs, limit) |-> UpTo(pairs, limit)[i].at]

\* search_success_cases(persona, challenges, genre, keywords, exclude_ids, limit)
search_success_cases(store, q) == Records(SortByScore(ScanCases(store, q, 1)), q.limit)

\* search_faqs(keywords, category, limit)
search_faqs(store, q) == Records(SortByScore(ScanFaqs(store, q, 1)), q.limit)

\* get_case_by_id: the first record of the store with that id (the record
\* itself, given here by its place in the store), None when there is none.
get_case_by_id(store, case_id) ==
  LET hits == {j \in DOMAIN store : store[j].id = case_id}
  IN  IF hits = {} THEN None ELSE <<CHOOSE j \in hits : \A k \in hits : j <= k>>

\* Variant of StoreAfterCall: the call keeps what it found in the attribute
\* it read (`self.success_cases = [case for _, case in results[:limit]]`).
StoreHoldsResults(store, found) ==
  IF found = None THEN store ELSE [i \in DOMAIN found |-> store[found[i]]]

\* self.success_cases / self.faqs when a call has returned: the loops only
\* read the list (`for case in self.success_cases`), the scored pairs go to
\* a list of the call's own and `results.sort` sorts that list.
StoreAfterCall(store, found) == store

---------------------------------------------------------------------------
(* The knowledge ranker on its own: one search call on a loaded store. *)

\* The largest limit a call is made with.
MaxLimit == 3

\* The stores a run may have loaded: the default fixture, or a file.
CaseStores == {default_cases, file_cases}

Personas == {None, SIDE_WORKER, CHILD_RAISING_MOM, SELF_ACHIEVER}

ChallengeLists ==
  {NoneList, << >>, <<word.ch_no_time>>, <<word.ch_earn>>, <<word.ch_no_time, word.ch_earn>>,
   <<word.ch_anxiety, word.ch_anxiety>>}

Genres == {None, word.empty_str, word.g_cooking, word.g_beauty, word.g_Diy_mixed}

CaseKeywordLists ==
  {NoneList, << >>, <<word.kw_beginner>>, <<word.kw_side_job, word.kw_childcare>>, <<word.kw_cooking, word.kw_cooking>>}

ExcludeLists ==
  {NoneList, << >>, <<word.id_case_001>>, <<word.id_case_002, word.id_case_003>>, <<word.id_case_101, word.id_case_001>>}

FaqKeywordLists ==
  {NoneList, << >>}
    \cup {<<k>> : k \in {word.kw_price, word.kw_beginner, word.kw_consult, word.kw_what, word.empty_str}}
    \cup {<<word.kw_price, word.kw_consult>>, <<word.kw_consult, word.kw_consult>>, <<word.kw_what, word.kw_beginner>>}

Categories == {None, word.empty_str, word.cat_price, word.cat_service}

CaseQueries ==
  [fn : {"search_success_cases"}, persona : Personas, challenges : ChallengeLists,
   genre : Genres, keywords : CaseKeywordLists, exclude_ids : ExcludeLists,
   category : {None}, limit : 0..MaxLimit]

FaqQueries ==
  [fn : {"search_faqs"}, persona : {None}, challenges : {NoneList},
   genre : {None}, keywords : FaqKeywordLists, exclude_ids : {NoneList},
   category : Categories, limit : 0..MaxLimit]

\* The arguments of get_case_by_id: ids the stores hold, one only the
\* file store holds, and one no store holds.
IdQueries ==
  [fn : {"get_case_by_id"},
   case_id : {word.id_case_001, word.id_case_003, word.id_case_101, word.empty_str}]

InitSearch ==
  /\ success_cases \in CaseStores
  /\ faqs = default_faqs
  /\ query \in CaseQueries \cup FaqQueries \cup IdQueries
  /\ results = << >>
  /\ pc = "call"
  /\ customer = Customer("test_user_001")
  /\ message = None
  /\ before = customer
  /\ returned = customer
  /\ calls = 0
  /\ db_customers = << >>
  /\ db_messages = << >>
  /\ db_mentioned_cases = << >>
  /\ messages = << >>
  /\ knowledge = [cases |-> << >>, faqs |-> << >>]
  /\ request = << >>
  /\ response = None
  /\ surfaced_log = << >>
  /\ ai_engine = "None"
  /\ tasks = << >>
  /\ replies = << >>
  /\ NotServing

\* knowledge_base.search_success_cases(...)
SearchSuccessCases ==
  /\ pc = "call"
  /\ query.fn = "search_success_cases"
  /\ results' = search_success_cases(success_cases, query)
  /\ success_cases' = StoreAfterCall(success_cases, results')
  /\ pc' = "done"
  /\ UNCHANGED <<query, faqs, extractVars, chatVars, handlerVars, serverVars>>

\* knowledge_base.search_faqs(...)
SearchFaqs ==
  /\ pc = "call"
  /\ query.fn = "search_faqs"
  /\ results' = search_faqs(faqs, query)
  /\ faqs' = StoreAfterCall(faqs, results')
  /\ pc' = "done"
  /\ UNCHANGED <<query, success_cases, extractVars, chatVars, handlerVars, serverVars>>

\* knowledge_base.get_case_by_id(case_id)
GetCaseById ==
  /\ pc = "call"
  /\ query.fn = "get_case_by_id"
  /\ results' = get_case_by_id(success_cases, query.case_id)
  /\ success_cases' = StoreAfterCall(success_cases, results')
  /\ pc' = "returned"
  /\ UNCHANGED <<query, faqs, extractVars, chatVars, handlerVars, serverVars>>

NextSearch == SearchSuccessCases \/ SearchFaqs \/ GetCaseById

SpecSearch == InitSearch /\ [][NextSearch]_vars
---------------------------------------------------------------------------
(* app/ai_engine.py: AIEngine *)

\* _extract_keywords: the entries of keyword_patterns, in list order, that
\* occur in the message.
_extract_keywords(msg) == SelectSeq(keyword_patterns, LAMBDA k : InStr(k, msg))

\* The test that gates the FAQ search in _get_relevant_knowledge.
LooksLikeQuestion(msg) ==
  \/ InStr(question_mark, msg)
  \/ InStr(wide_question_mark, msg)
  \/ \E i \in DOMAIN question_words : InStr(question_words[i], msg)

\* The arguments _get_relevant_knowledge calls search_success_cases with.
CaseQuery(context, msg) ==
  [fn |-> "search_success_cases",
   persona |-> IF context.customer.persona # UNKNOWN THEN context.customer.persona ELSE None,
   challenges |-> context.customer.challenges,
   genre |-> None,
   keywords |-> _extract_keywords(msg),
   exclude_ids |-> context.mentioned_cases,
   category |-> None,
   limit |-> 2]

\* The arguments _get_relevant_knowledge calls search_faqs with.
FaqQuery(msg) ==
  [fn |-> "search_faqs", persona |-> None, challenges |-> NoneList, genre |-> None,
   keywords |-> _extract_keywords(msg), exclude_ids |-> NoneList,
   category |-> None, limit |-> 2]

\* _get_relevant_knowledge: the success cases and the FAQs written into the
\* knowledge text, each as its position in the store, in the order written.
_get_relevant_knowledge(cases, faq_store, context, msg) ==
  [cases |-> search_success_cases(cases, CaseQuery(context, msg)),
   faqs |-> IF LooksLikeQuestion(msg) THEN search_faqs(faq_store, FaqQuery(msg)) ELSE << >>]

\* _build_context_prompt: the customer_info lines, each as the field it
\* renders and the value rendered, and the mentioned cases.
_build_context_prompt(context) ==
  LET c == context.customer
  IN  [customer_info |->
         (IF Truthy(c.display_name) THEN <<[field |-> "display_name", value |-> c.display_name]>> ELSE << >>)
         \o (IF Truthy(c.occupation) THEN <<[field |-> "occupation", value |-> c.occupation]>> ELSE << >>)
         \o (IF NonEmpty(c.interest_genre) THEN <<[field |-> "interest_genre", value |-> c.interest_genre]>> ELSE << >>)
         \o (IF NonEmpty(c.challenges) THEN <<[field |-> "challenges", value |-> c.challenges]>> ELSE << >>)
         \o (IF Truthy(c.goals) THEN <<[field |-> "goals", value |-> c.goals]>> ELSE << >>)
         \o (IF c.persona # UNKNOWN THEN <<[field |-> "persona", value |-> c.persona]>> ELSE << >>)
         \o <<[field |-> "status", value |-> c.status]>>,
       mentioned_cases |-> context.mentioned_cases]

\* Variant of Last10: the first ten (`context.messages[:10]`).
First10(xs) == SubSeq(xs, 1, IF Len(xs) > 10 THEN 10 ELSE Len(xs))

\* context.messages[-10:]
Last10(xs) == SubSeq(xs, IF Len(xs) > 10 THEN Len(xs) - 9 ELSE 1, Len(xs))

\* _build_messages: the system message, the last 10 messages of the
\* context, the current user message.
_build_messages(context, msg, knowledge_text) ==
  <<[role |-> "system",
     content |-> [context_prompt |-> _build_context_prompt(context), knowledge |-> knowledge_text]]>>
  \o [i \in DOMAIN Last10(context.messages) |->
        [role |-> Last10(context.messages)[i].role, content |-> Last10(context.messages)[i].content]]
  \o <<[role |-> "user", content |-> msg]>>

\* Variant of generate_response: the except clause returns nothing, the
\* response of a failed call is None.
GenerateResponseNoFallback(cases, faq_store, context, msg, api_reply) ==
  { LET ctx == [context EXCEPT !.customer = analysed]
        found == _get_relevant_knowledge(cases, faq_store, ctx, msg)
    IN  [context |-> ctx,
         knowledge |-> found,
         request |-> _build_messages(ctx, msg, found),
         response |-> api_reply] :
    analysed \in analyze_message(msg, context.customer) }

\* generate_response(context, user_message): what the call may leave behind.
\* api_reply is the text the chat completion returned, or None when the call
\* raised.  The customer of the context is replaced by the analysed one.
generate_response(cases, faq_store, context, msg, api_reply) ==
  { LET ctx == [context EXCEPT !.customer = analysed]
        found == _get_relevant_knowledge(cases, faq_store, ctx, msg)
    IN  [context |-> ctx,
         knowledge |-> found,
         request |-> _build_messages(ctx, msg, found),
         response |-> IF api_reply # None THEN api_reply ELSE fallback_response] :
    analysed \in analyze_message(msg, context.customer) }

---------------------------------------------------------------------------
(* app/database.py: Database.  The three tables are the rows in insertion *)
(* order; the customers table is keyed by user_id.                        *)

\* Variant of save_customer: the table is replaced by the one row.
SaveCustomerAlone(table, c) == [u \in {c.user_id} |-> c]

\* save_customer: INSERT OR REPLACE INTO customers.
save_customer(table, c) ==
  [u \in DOMAIN table \cup {c.user_id} |-> IF u = c.user_id THEN c ELSE table[u]]

\* save_message: INSERT INTO messages.
save_message(table, m) == Append(table, m)

\* get_mentioned_cases: the case_id of every row of the user.
get_mentioned_cases(table, user_id) ==
  LET rows == SelectSeq(table, LAMBDA r : r.user_id = user_id)
  IN  [i \in DOMAIN rows |-> rows[i].case_id]

\* Message(user_id=..., role=..., content=...)
Message(user_id, role, content) == [user_id |-> user_id, role |-> role, content |-> content]

---------------------------------------------------------------------------
(* scripts/test_local.py: test_conversation, the conversation loop that   *)
(* drives generate_response turn by turn for one customer.                *)

\* How many turns a conversation has.
MaxTurns == 3

test_user_id == "test_local_user"

\* What the user types (stripped, not empty, not a quit word).
ChatInputs == {utterance.challenges, utterance.time, utterance.price, utterance.hello}

\* What the chat completion call gives: a text, or None when it raises.
ApiReplies == {generated_reply, None}

\* The state when the loop is entered: the tables of a new database, the
\* loaded default stores, the test customer created and saved.
Init ==
  /\ customer = [Customer(test_user_id) EXCEPT !.display_name = test_display_name]
  /\ db_customers = save_customer(<< >>, customer)
  /\ db_messages = << >>
  /\ db_mentioned_cases = << >>
  /\ messages = << >>
  /\ success_cases = default_cases
  /\ faqs = default_faqs
  /\ knowledge = [cases |-> << >>, faqs |-> << >>]
  /\ request = << >>
  /\ response = None
  /\ surfaced_log = << >>
  /\ ai_engine = "None"
  /\ tasks = << >>
  /\ replies = << >>
  /\ NotServing
  /\ message = None
  /\ before = customer
  /\ returned = customer
  /\ calls = 0
  /\ query = << >>
  /\ results = << >>
  /\ pc = "chat"

\* One pass of the loop body for a user input: the user message is kept and
\* saved, the context is built, generate_response runs, the customer and the
\* assistant message are saved.
ChatTurn(user_input, api_reply) ==
  /\ pc = "chat"
  /\ Len(surfaced_log) < MaxTurns
  /\ LET user_msg == Message(test_user_id, "user", user_input)
         context == [customer |-> customer,
                     messages |-> Append(messages, user_msg),
                     mentioned_cases |-> get_mentioned_cases(db_mentioned_cases, test_user_id)]
     IN  \E out \in generate_response(success_cases, faqs, context, user_input, api_reply) :
           LET assistant_msg == Message(test_user_id, "assistant", out.response)
           IN  /\ customer' = out.context.customer
               /\ db_customers' = save_customer(db_customers, out.context.customer)
               /\ messages' = Append(Append(messages, user_msg), assistant_msg)
               /\ db_messages' = save_message(save_message(db_messages, user_msg), assistant_msg)
               /\ knowledge' = out.knowledge
               /\ request' = out.request
               /\ response' = out.response
               /\ surfaced_log' =
                    Append(surfaced_log,
                           [i \in DOMAIN out.knowledge.cases |-> success_cases[out.knowledge.cases[i]].id])
               /\ message' = user_input
               /\ before' = customer
               /\ returned' = out.context.customer
  /\ UNCHANGED <<db_mentioned_cases, success_cases, faqs, calls, query, results, pc, handlerVars, serverVars>>

Next == \E user_input \in ChatInputs, api_reply \in ApiReplies : ChatTurn(user_input, api_reply)

Spec == Init /\ [][Next]_vars


---------------------------------------------------------------------------
(* app/database.py: reading a conversation context; AIEngine.generate_response *)
(* on a context read from the database, as _handle_text_message calls the two. *)

\* What get_customer returns when the user has no row (Python's None; no
\* user has the id "").
NoCustomer == Customer("")

\* get_customer: the row of the user as a Customer, None when there is
\* none.  An empty persona or status column is read as the default.
get_customer(table, user_id) ==
  IF user_id \in DOMAIN table
  THEN [table[user_id] EXCEPT !.persona = IF Truthy(@) THEN @ ELSE UNKNOWN,
                              !.status = IF Truthy(@) THEN @ ELSE INITIAL]
  ELSE NoCustomer

\* list(reversed(xs))
Reverse(xs) == [i \in DOMAIN xs |-> xs[Len(xs) + 1 - i]]

\* LIMIT n
Limit(rows, n) == SubSeq(rows, 1, IF n < Len(rows) THEN n ELSE Len(rows))

\* The default of get_conversation_history's limit.
history_limit == 20

\* get_conversation_history: the rows of the user ORDER BY timestamp DESC
\* (a row saved later has a later timestamp), LIMIT limit, reversed.
get_conversation_history(table, user_id, limit) ==
  Reverse(Limit(Reverse(SelectSeq(table, LAMBDA r : r.user_id = user_id)), limit))

\* get_conversation_context: the context of the user, and the customers
\* table the call leaves (a user without row gets a default one).
get_conversation_context(customers, msgs, mentioned, user_id) ==
  LET found == get_customer(customers, user_id)
      c == IF found # NoCustomer THEN found ELSE Customer(user_id)
  IN  [context |-> [customer |-> c,
                    messages |-> get_conversation_history(msgs, user_id, history_limit),
                    mentioned_cases |-> get_mentioned_cases(mentioned, user_id)],
       customers |-> IF found # NoCustomer THEN customers ELSE save_customer(customers, c)]

\* How many rows the messages table holds at most when the context is read.
MaxHistory == 24

other_user_id == "other_user"

\* A messages table of n rows: every eighth row is of another user, the
\* roles alternate, the content of row i is the one character 1000 + i.
HistoryRows(n) ==
  [i \in 1..n |-> Message(IF i % 8 = 0 THEN other_user_id ELSE test_user_id,
                          IF i % 2 = 1 THEN "user" ELSE "assistant",
                          <<1000 + i>>)]

\* The customers rows the context is read from.
PromptCustomers ==
  {Customer(test_user_id),
   [Customer(test_user_id) EXCEPT !.display_name = test_display_name],
   [Customer(test_user_id) EXCEPT !.display_name = test_display_name,
                                  !.occupation = word.occ_housewife,
                                  !.interest_genre = <<word.g_childcare, word.g_cooking>>,
                                  !.challenges = <<word.ch_no_time>>,
                                  !.persona = CHILD_RAISING_MOM],
   [Customer(test_user_id) EXCEPT !.goals = word.ch_earn, !.persona = SIDE_WORKER]}

\* The user messages a prompt is built for.
PromptInputs == {utterance.hello, utterance.price, utterance.time}

InitPrompt ==
  /\ db_customers \in {<< >>} \cup {save_customer(<< >>, c) : c \in PromptCustomers}
  /\ db_messages \in {HistoryRows(n) : n \in 0..MaxHistory}
  /\ db_mentioned_cases = << >>
  /\ message \in PromptInputs
  /\ customer = get_customer(db_customers, test_user_id)
  /\ before = customer
  /\ returned = customer
  /\ calls = 0
  /\ success_cases = default_cases
  /\ faqs = default_faqs
  /\ query = << >>
  /\ results = << >>
  /\ pc = "prompt"
  /\ messages = << >>
  /\ knowledge = [cases |-> << >>, faqs |-> << >>]
  /\ request = << >>
  /\ response = None
  /\ surfaced_log = << >>
  /\ ai_engine = "None"
  /\ tasks = << >>
  /\ replies = << >>
  /\ NotServing

\* context = await db.get_conversation_context(user_id);
\* response = await ai_engine.generate_response(context, user_message)
GenerateFromStore(api_reply) ==
  /\ pc = "prompt"
  /\ LET loaded == get_conversation_context(db_customers, db_messages, db_mentioned_cases,
                                            test_user_id)
     IN  \E out \in generate_response(success_cases, faqs, loaded.context, message, api_reply) :
           /\ customer' = out.context.customer
           /\ returned' = out.context.customer
           /\ before' = loaded.context.customer
           /\ db_customers' = loaded.customers
           /\ messages' = loaded.context.messages
           /\ knowledge' = out.knowledge
           /\ request' = out.request
           /\ response' = out.response
  /\ calls' = calls + 1
  /\ pc' = "prompted"
  /\ UNCHANGED <<message, query, results, storeVars, db_messages, db_mentioned_cases, surfaced_log,
               handlerVars, serverVars>>

NextPrompt == \E api_reply \in ApiReplies : GenerateFromStore(api_reply)

SpecPrompt == InitPrompt /\ [][NextPrompt]_vars

---------------------------------------------------------------------------
(* app/line_handler.py: LineHandler.  Every event starts a coroutine; a   *)
(* coroutine runs until its next await of a database or API call, and any *)
(* other coroutine may run before it goes on.  lstep_client is None, as   *)
(* the import at line 32 binds it: _should_ai_respond returns True, and   *)
(* _enrich_customer_from_lstep and _sync_to_lstep do nothing.             *)

\* How many events are handled.
MaxEvents == 2

\* The LINE user ids of the events.
HandlerUsers == {"user_a", "user_b"}

\* The texts of the message events.
HandlerInputs == {utterance.cook, utterance.wife, utterance.refund}

\* What get_profile gives: a display name, or None when it raises.
ProfileNames == {test_display_name, None}

\* The context a coroutine holds before it has read one.
NoContext == [customer |-> NoCustomer, messages |-> << >>, mentioned_cases |-> << >>]

\* The coroutine of an event, before its first step.  loaded and api_error
\* are history: the customer get_conversation_context gave, and whether the
\* chat completion call raised.
Task(kind, user_id, text) ==
  [kind |-> kind, user_id |-> user_id, text |-> text, pc |-> "start",
   context |-> NoContext, loaded |-> NoCustomer, response |-> None,
   api_calls |-> 0, api_error |-> FALSE]

\* The events: text messages, a follow and an unfollow of one user, and a
\* text message and a follow of another.
Events ==
  {Task("text", "user_a", m) : m \in HandlerInputs}
    \cup {Task("follow", "user_a", None), Task("unfollow", "user_a", None)}
    \cup {Task("text", "user_b", utterance.wife), Task("follow", "user_b", None)}

\* The coroutine when it has returned: its locals are gone, the event and
\* the history stay.
Finished(task) == [task EXCEPT !.pc = "done", !.context = NoContext, !.response = None]

\* _is_handoff_request
_is_handoff_request(msg) == \E i \in DOMAIN handoff_keywords : InStr(handoff_keywords[i], msg)

\* generate_welcome_message
generate_welcome_message(c) ==
  welcome_head
    \o (IF Truthy(c.display_name) THEN c.display_name \o name_suffix ELSE << >>)
    \o welcome_tail

\* reply_message(ReplyMessageRequest(..., messages=[TextMessage(text=text)]))
reply_message(sent, user_id, text) == Append(sent, [user_id |-> user_id, text |-> text])

InitHandler ==
  /\ ai_engine \in {"None", "AIEngine"}
  /\ tasks = << >>
  /\ replies = << >>
  /\ NotServing
  /\ db_customers = << >>
  /\ db_messages = << >>
  /\ db_mentioned_cases = << >>
  /\ success_cases = default_cases
  /\ faqs = default_faqs
  /\ customer = NoCustomer
  /\ message = None
  /\ before = customer
  /\ returned = customer
  /\ calls = 0
  /\ query = << >>
  /\ results = << >>
  /\ pc = "serve"
  /\ messages = << >>
  /\ knowledge = [cases |-> << >>, faqs |-> << >>]
  /\ request = << >>
  /\ response = None
  /\ surfaced_log = << >>

\* What the steps of the handlers leave alone.
handlerFrame == <<extractVars, searchVars, storeVars, db_mentioned_cases, messages, response,
                  surfaced_log, ai_engine, serverVars>>

\* An event arrives and its handler coroutine is created.
StartEvent(ev) ==
  /\ Len(tasks) < MaxEvents
  /\ tasks' = Append(tasks, ev)
  /\ UNCHANGED <<handlerFrame, db_customers, db_messages, knowledge, request, replies>>

\* _handle_text_message, lines 133-154: the user message is saved; a handoff
\* request goes to _handle_handoff.
TextSaveUserMessage(t) ==
  /\ tasks[t].kind = "text"
  /\ tasks[t].pc = "start"
  /\ db_messages' = save_message(db_messages, Message(tasks[t].user_id, "user", tasks[t].text))
  /\ tasks' = [tasks EXCEPT ![t].pc = IF _is_handoff_request(tasks[t].text)
                                      THEN "handoff" ELSE "get_customer"]
  /\ UNCHANGED <<handlerFrame, db_customers, knowledge, request, replies>>

\* _handle_handoff: the fixed reply (there is no Lstep client to notify).
Handoff(t) ==
  /\ tasks[t].pc = "handoff"
  /\ replies' = reply_message(replies, tasks[t].user_id, handoff_reply)
  /\ tasks' = [tasks EXCEPT ![t] = Finished(tasks[t])]
  /\ UNCHANGED <<handlerFrame, db_customers, db_messages, knowledge, request>>

\* get_conversation_context, line 174: get_customer.
GetCustomer(t) ==
  /\ tasks[t].pc = "get_customer"
  /\ LET found == get_customer(db_customers, tasks[t].user_id)
     IN  tasks' = [tasks EXCEPT
                     ![t].context.customer =
                        IF found # NoCustomer THEN found ELSE Customer(tasks[t].user_id),
                     ![t].pc = IF found # NoCustomer THEN "get_history" ELSE "save_default"]
  /\ UNCHANGED <<handlerFrame, db_customers, db_messages, knowledge, request, replies>>

\* get_conversation_context, lines 175-177: the default Customer of a user
\* without row is saved.
SaveDefault(t) ==
  /\ tasks[t].pc = "save_default"
  /\ db_customers' = save_customer(db_customers, tasks[t].context.customer)
  /\ tasks' = [tasks EXCEPT ![t].pc = "get_history"]
  /\ UNCHANGED <<handlerFrame, db_messages, knowledge, request, replies>>

\* get_conversation_context, lines 179-180: get_conversation_history and
\* get_mentioned_cases (no handler writes the mentioned_cases table, so the
\* two reads are one step); then _handle_text_message, lines 160-162: the
\* branch on ai_engine.
GetHistory(t) ==
  /\ tasks[t].pc = "get_history"
  /\ tasks' = [tasks EXCEPT
                 ![t].context.messages =
                    get_conversation_history(db_messages, tasks[t].user_id, history_limit),
                 ![t].context.mentioned_cases =
                    get_mentioned_cases(db_mentioned_cases, tasks[t].user_id),
                 ![t].loaded = tasks[t].context.customer,
                 ![t].pc = IF ai_engine # "None" THEN "generate" ELSE "not_initialized"]
  /\ UNCHANGED <<handlerFrame, db_customers, db_messages, knowledge, request, replies>>

\* _handle_text_message, line 164: ai_engine.generate_response (the payload
\* goes to the chat completion and is not kept).
Generate(t, api_reply) ==
  /\ tasks[t].pc = "generate"
  /\ \E out \in generate_response(success_cases, faqs, tasks[t].context, tasks[t].text, api_reply) :
       /\ tasks' = [tasks EXCEPT ![t].context = out.context,
                                 ![t].response = out.response,
                                 ![t].api_calls = @ + 1,
                                 ![t].api_error = (api_reply = None),
                                 ![t].pc = "save_customer"]
  /\ UNCHANGED <<handlerFrame, db_customers, db_messages, knowledge, request, replies>>

\* _handle_text_message, lines 167-170: db.save_customer(context.customer).
SaveCustomer(t) ==
  /\ tasks[t].pc = "save_customer"
  /\ db_customers' = save_customer(db_customers, tasks[t].context.customer)
  /\ tasks' = [tasks EXCEPT ![t].pc = "save_assistant"]
  /\ UNCHANGED <<handlerFrame, db_messages, knowledge, request, replies>>

\* _handle_text_message, lines 173-178, and _handle_follow, lines 110-115:
\* the assistant message is saved.
SaveAssistant(t) ==
  /\ tasks[t].pc = "save_assistant"
  /\ db_messages' =
       save_message(db_messages, Message(tasks[t].user_id, "assistant", tasks[t].response))
  /\ tasks' = [tasks EXCEPT ![t].pc = "reply"]
  /\ UNCHANGED <<handlerFrame, db_customers, knowledge, request, replies>>

\* _handle_text_message, lines 181-186, and _handle_follow, lines 118-123:
\* the reply.
Reply(t) ==
  /\ tasks[t].pc = "reply"
  /\ replies' = reply_message(replies, tasks[t].user_id, tasks[t].response)
  /\ tasks' = [tasks EXCEPT ![t] = Finished(tasks[t])]
  /\ UNCHANGED <<handlerFrame, db_customers, db_messages, knowledge, request>>

\* _handle_text_message, lines 187-196: the reply when ai_engine is not set.
NotInitialized(t) ==
  /\ tasks[t].pc = "not_initialized"
  /\ replies' = reply_message(replies, tasks[t].user_id, not_initialized_reply)
  /\ tasks' = [tasks EXCEPT ![t] = Finished(tasks[t])]
  /\ UNCHANGED <<handlerFrame, db_customers, db_messages, knowledge, request>>

\* _handle_follow, lines 78-96: get_profile and the new Customer.
FollowGetProfile(t, display_name) ==
  /\ tasks[t].kind = "follow"
  /\ tasks[t].pc = "start"
  /\ tasks' = [tasks EXCEPT
                 ![t].context.customer =
                    [Customer(tasks[t].user_id) EXCEPT !.display_name = display_name,
                                                       !.status = INITIAL],
                 ![t].pc = "save_followed"]
  /\ UNCHANGED <<handlerFrame, db_customers, db_messages, knowledge, request, replies>>

\* _handle_follow, lines 98-107: db.save_customer(customer), and the welcome
\* message when ai_engine is set.
FollowSaveCustomer(t) ==
  /\ tasks[t].pc = "save_followed"
  /\ db_customers' = save_customer(db_customers, tasks[t].context.customer)
  /\ tasks' = [tasks EXCEPT
                 ![t] = IF ai_engine # "None"
                        THEN [tasks[t] EXCEPT
                                !.response = generate_welcome_message(tasks[t].context.customer),
                                !.pc = "save_assistant"]
                        ELSE Finished(tasks[t])]
  /\ UNCHANGED <<handlerFrame, db_messages, knowledge, request, replies>>

\* _handle_unfollow
Unfollow(t) ==
  /\ tasks[t].kind = "unfollow"
  /\ tasks[t].pc = "start"
  /\ tasks' = [tasks EXCEPT ![t] = Finished(tasks[t])]
  /\ UNCHANGED <<handlerFrame, db_customers, db_messages, knowledge, request, replies>>

NextHandler ==
  \/ \E ev \in Events : StartEvent(ev)
  \/ \E t \in DOMAIN tasks : TextSaveUserMessage(t)
  \/ \E t \in DOMAIN tasks : Handoff(t)
  \/ \E t \in DOMAIN tasks : GetCustomer(t)
  \/ \E t \in DOMAIN tasks : SaveDefault(t)
  \/ \E t \in DOMAIN tasks : GetHistory(t)
  \/ \E t \in DOMAIN tasks, api_reply \in ApiReplies : Generate(t, api_reply)
  \/ \E t \in DOMAIN tasks : SaveCustomer(t)
  \/ \E t \in DOMAIN tasks : SaveAssistant(t)
  \/ \E t \in DOMAIN tasks : Reply(t)
  \/ \E t \in DOMAIN tasks : NotInitialized(t)
  \/ \E t \in DOMAIN tasks, display_name \in ProfileNames : FollowGetProfile(t, display_name)
  \/ \E t \in DOMAIN tasks : FollowSaveCustomer(t)
  \/ \E t \in DOMAIN tasks : Unfollow(t)

SpecHandler == InitHandler /\ [][NextHandler]_vars

---------------------------------------------------------------------------
(* The server: main.py (lifespan, /webhook), app/lstep_client.py and the   *)
(* parts of LineHandler that talk to Lstep.  A name that a module imports  *)
(* with `from m import x` holds what m.x held when the import ran; the     *)
(* initialize_* functions rebind m.x and no importing name.  A text        *)
(* message handler runs here from its start to its return.                  *)

\* How many requests and events a run handles.
MaxRequests == 2

\* An HTTP exchange with the Lstep API: the status of the answer, or
\* "error" when the request raised (no connection, timeout).
Exchanges == {"200", "503", "error"}

\* The exchanges of the calls after the first one of a handler: answered
\* with 200, or not.
LaterExchanges == {"200", "error"}

\* dict access for a JSON object held as the list of its items.
HasKey(items, name) == \E i \in DOMAIN items : items[i].name = name

ValueOf(items, name) == items[CHOOSE i \in DOMAIN items : items[i].name = name].value

\* What get_friend returns for a user that has no friend record to return.
NoFriend == [tags |-> NoneList, custom_fields |-> << >>]

\* LstepClient.get_friend: the JSON of the answer when its status is 200,
\* None for every other status and when the request raised.
get_friend(account, user_id, exchange) ==
  IF exchange = "200" THEN account.friends[user_id] ELSE NoFriend

\* LstepClient.get_friend_tags, on what get_friend returned.
get_friend_tags(friend) == IF friend # NoFriend THEN friend.tags ELSE << >>

\* LstepClient.get_custom_fields, on what get_friend returned.
get_custom_fields(friend) == IF friend # NoFriend THEN friend.custom_fields ELSE << >>

\* The (tag, table item) pairs in the order of `for tag in tags: for
\* keyword, value in table.items()`, each as the item when its keyword is
\* in the tag.
TagHits(tags, table) ==
  SelectSeq([n \in 1..(Len(tags) * Len(table)) |->
               [tag |-> tags[((n - 1) \div Len(table)) + 1],
                item |-> table[((n - 1) % Len(table)) + 1]]],
            LAMBDA h : InStr(h.item.keyword, h.tag))

\* LstepDataMapper.extract_persona_from_tags
extract_persona_from_tags(tags) ==
  IF TagHits(tags, LstepDataMapper.TAG_TO_PERSONA) = << >> THEN None
  ELSE Head(TagHits(tags, LstepDataMapper.TAG_TO_PERSONA)).item.persona

\* `if x not in xs: xs.append(x)` for each x in turn.
RECURSIVE AppendNew(_, _)
AppendNew(xs, more) ==
  IF more = << >> THEN xs
  ELSE AppendNew(IF InList(Head(more), xs) THEN xs ELSE Append(xs, Head(more)), Tail(more))

\* LstepDataMapper.extract_genres_from_tags
extract_genres_from_tags(tags) ==
  LET hits == TagHits(tags, LstepDataMapper.TAG_TO_GENRE)
  IN  AppendNew(<< >>, [i \in DOMAIN hits |-> hits[i].item.genre])

\* LstepDataMapper.extract_source_from_tags: the first tag that holds one
\* of the source keywords.
extract_source_from_tags(tags) ==
  LET found == SelectSeq(tags, LAMBDA tag :
                 \E k \in DOMAIN LstepDataMapper.source_keywords :
                    InStr(LstepDataMapper.source_keywords[k], tag))
  IN  IF found = << >> THEN None ELSE Head(found)

\* _should_ai_respond, given what get_friend returned to get_friend_tags.
\* get_friend catches what the request raises, so the handler of the
\* except clause at line 210 has nothing to catch here.
_should_ai_respond(client, friend) ==
  IF client = "None" THEN TRUE ELSE InList(ai_mode_tag, get_friend_tags(friend))

\* Variant of EnrichOccupation: the survey answer is taken whether or not
\* the profile has an occupation (`if "occupation" in custom_fields:`).
EnrichOccupationAlways(c, custom_fields) ==
  IF custom_fields # << >> /\ HasKey(custom_fields, "occupation")
  THEN [c EXCEPT !.occupation = ValueOf(custom_fields, "occupation")]
  ELSE c

\* _enrich_customer_from_lstep, the occupation of the custom fields.
EnrichOccupation(c, custom_fields) ==
  IF custom_fields # << >> /\ HasKey(custom_fields, "occupation") /\ ~Truthy(c.occupation)
  THEN [c EXCEPT !.occupation = ValueOf(custom_fields, "occupation")]
  ELSE c

\* _enrich_customer_from_lstep, the goals of the custom fields.
EnrichGoals(c, custom_fields) ==
  IF custom_fields # << >> /\ HasKey(custom_fields, "goals") /\ ~Truthy(c.goals)
  THEN [c EXCEPT !.goals = ValueOf(custom_fields, "goals")]
  ELSE c

\* _enrich_customer_from_lstep(customer): the Customer objects it may
\* return (one per order of the rebuilt genre list), given what the two
\* get_friend calls returned.  The genre step is the union of
\* analyze_message (`list(existing | set(genres))`).
_enrich_customer_from_lstep(client, c, tags_friend, fields_friend) ==
  IF client = "None" THEN {c}
  ELSE
    LET tags == get_friend_tags(tags_friend)
        source == extract_source_from_tags(tags)
        persona == extract_persona_from_tags(tags)
        c1 == IF tags # << >> /\ Truthy(source) /\ ~Truthy(c.source)
              THEN [c EXCEPT !.source = source] ELSE c
        c2 == IF tags # << >> /\ Truthy(persona) /\ c1.persona = UNKNOWN
              THEN [c1 EXCEPT !.persona = persona] ELSE c1
        genre_lists == IF tags # << >>
                       THEN UnionLists(extract_genres_from_tags(tags), c2.interest_genre)
                       ELSE {c2.interest_genre}
        custom_fields == get_custom_fields(fields_friend)
    IN  { EnrichGoals(EnrichOccupation([c2 EXCEPT !.interest_genre = g], custom_fields),
                      custom_fields) : g \in genre_lists }

\* The tags _sync_to_lstep calls add_tag with, in call order.
sync_tags(client, c) ==
  IF client = "None" THEN << >>
  ELSE (IF Truthy(c.persona) /\ c.persona # UNKNOWN
        THEN <<sync_prefix.persona \o c.persona>> ELSE << >>)
       \o [i \in DOMAIN OrEmpty(c.interest_genre) |-> sync_prefix.genre \o c.interest_genre[i]]

\* The Lstep account when the friend was given tags (add_tag answered with
\* 200) and when a tag was taken from the friend (remove_tag answered 200).
WithTags(account, user_id, names) ==
  [account EXCEPT !.friends[user_id].tags = AppendNew(@, names)]

WithoutTag(account, user_id, name) ==
  [account EXCEPT !.friends[user_id].tags = SelectSeq(@, LAMBDA tag : tag # name)]

\* The Lstep account when notify_staff was answered with 200.
Notified(account, user_id, text) ==
  [account EXCEPT !.notifications = Append(@, [line_user_id |-> user_id, message |-> text])]

\* The users of the events, all friends of the Lstep account.
ServerUsers == {"user_a"}

\* The texts of the message events.
ServerInputs == {utterance.wife, utterance.refund}

\* The friend records Lstep may hold for a user: with and without the AI
\* mode tag, with tags that name a source, a persona and a genre, with and
\* without survey answers.
Friends ==
  {[tags |-> <<ai_mode_tag>>, custom_fields |-> << >>],
   [tags |-> <<word.tag_instagram_ad, word.tag_recipe_mama>>,
    custom_fields |-> <<[name |-> "occupation", value |-> word.occ_company]>>],
   [tags |-> <<ai_mode_tag, word.tag_instagram_ad, word.tag_recipe_mama>>,
    custom_fields |-> <<[name |-> "occupation", value |-> word.occ_company],
                        [name |-> "goals", value |-> word.goal_side_income]>>],
   [tags |-> <<word.tag_owner, ai_mode_tag>>, custom_fields |-> << >>]}

\* hmac.new(key, body, sha256): a value that two calls give alike exactly
\* when key and body are alike.
hmac(key, body) == [key |-> key, body |-> body]

\* settings.line_channel_secret
channel_secret == "channel_secret"

\* A request without the X-Line-Signature header (Header(None)).
NoSignature == hmac("", "")

\* The /webhook requests: a body of events with no signature, with the
\* signature of the channel secret, with a signature made with another
\* key, and with the channel's signature of another body.
Requests ==
  [body : {"events"},
   signature : {NoSignature, hmac(channel_secret, "events"), hmac("other_secret", "events"),
                hmac(channel_secret, "other_events")}]

\* LineHandler.verify_signature
verify_signature(body, signature) == signature = hmac(channel_secret, body)

\* webhook(request, x_line_signature): the status of the answer and whether
\* handler.handle was called with the body.  The HTTPException(400) of an
\* invalid signature is raised inside the try block, whose `except
\* Exception` catches it and raises HTTPException(500).
webhook(handler, req) ==
  IF req.signature = NoSignature THEN [request |-> req, status |-> 400, dispatched |-> FALSE]
  ELSE IF handler = "None" THEN [request |-> req, status |-> 200, dispatched |-> FALSE]
  ELSE IF ~verify_signature(req.body, req.signature)
       THEN [request |-> req, status |-> 500, dispatched |-> FALSE]
  ELSE [request |-> req, status |-> 200, dispatched |-> TRUE]

\* What a text message handler leaves of itself: which event of the run it
\* handled, the event, the answer to
\* the tag lookup of _should_ai_respond ("none": no lookup was made) and
\* what it returned, the branch taken, and the Customer before and after
\* _enrich_customer_from_lstep with the answers to its two lookups.
Turn(user_id, text, lookup, respond, branch) ==
  [at |-> calls + 1, kind |-> "text", user_id |-> user_id, text |-> text, pc |-> "done",
   lookup |-> lookup, respond |-> respond, branch |-> branch,
   notify |-> "none", remove |-> "none", tag_lookup |-> "none", field_lookup |-> "none",
   loaded |-> NoCustomer, enriched |-> NoCustomer]

\* The answers a call of the Lstep client may get: none when there is no
\* client to call.
Answers == IF lstep_client = "None" THEN {"none"} ELSE Exchanges

LaterAnswers == IF lstep_client = "None" THEN {"none"} ELSE LaterExchanges

\* The state when main and app.line_handler have been imported: the three
\* module attributes are None, or what an earlier initialize_* call left,
\* and the importing names hold the same; the database is initialised and
\* the knowledge base loaded.
InitServer ==
  /\ modules \in [ai_engine : {"None", "AIEngine"}, lstep_client : {"None", "LstepClient"},
                  line_handler : {"None", "LineHandler"}]
  /\ ai_engine = modules.ai_engine
  /\ lstep_client = modules.lstep_client
  /\ line_handler = modules.line_handler
  /\ lstep \in {[friends |-> [u \in ServerUsers |-> f], notifications |-> << >>] : f \in Friends}
  /\ http = NoRequest
  /\ tasks = << >>
  /\ replies = << >>
  /\ db_customers = << >>
  /\ db_messages = << >>
  /\ db_mentioned_cases = << >>
  /\ success_cases = default_cases
  /\ faqs = default_faqs
  /\ customer = NoCustomer
  /\ message = None
  /\ before = customer
  /\ returned = customer
  /\ calls = 0
  /\ query = << >>
  /\ results = << >>
  /\ pc = "starting"
  /\ messages = << >>
  /\ knowledge = [cases |-> << >>, faqs |-> << >>]
  /\ request = << >>
  /\ response = None
  /\ surfaced_log = << >>

\* lifespan, up to its yield: initialize_ai_engine, initialize_lstep_client
\* when settings.lstep_enabled, initialize_line_handler.  Each rebinds the
\* attribute of its own module.
Startup(lstep_enabled) ==
  /\ pc = "starting"
  /\ modules' = [ai_engine |-> "AIEngine",
                 lstep_client |-> IF lstep_enabled THEN "LstepClient" ELSE modules.lstep_client,
                 line_handler |-> "LineHandler"]
  /\ pc' = "serving"
  /\ UNCHANGED <<extractVars, query, results, storeVars, chatVars, handlerVars,
                 lstep_client, line_handler, lstep, http>>

\* POST /webhook
Webhook(req) ==
  /\ pc = "serving"
  /\ calls < MaxRequests
  /\ http' = webhook(line_handler, req)
  /\ calls' = calls + 1
  /\ UNCHANGED <<customer, message, before, returned, searchVars, storeVars, chatVars,
                 handlerVars, lstep_client, line_handler, modules, lstep>>

\* _handle_text_message(event), from its start to its return.
HandleTextMessage(user_id, text) ==
  /\ pc = "serving"
  /\ calls < MaxRequests
  /\ calls' = calls + 1
  /\ UNCHANGED <<searchVars, storeVars, db_mentioned_cases, messages, knowledge, request,
                 surfaced_log, ai_engine, lstep_client, line_handler, modules, http>>
  /\ \E lookup \in Answers :
       LET respond == _should_ai_respond(lstep_client, get_friend(lstep, user_id, lookup))
           stored == save_message(db_messages, Message(user_id, "user", text))
           loaded == get_conversation_context(db_customers, stored, db_mentioned_cases, user_id)
       IN  IF ~respond
           THEN /\ tasks' = <<Turn(user_id, text, lookup, respond, "ignored")>>
                /\ UNCHANGED <<customer, message, before, returned, db_customers, db_messages, response, replies, lstep>>
           ELSE IF _is_handoff_request(text)
           THEN \E notify \in LaterAnswers, remove \in LaterAnswers :
                  /\ db_messages' = stored
                  /\ lstep' =
                       LET told == IF notify = "200"
                                   THEN Notified(lstep, user_id, text) ELSE lstep
                       IN  IF remove = "200" THEN WithoutTag(told, user_id, ai_mode_tag) ELSE told
                  /\ replies' = reply_message(replies, user_id, handoff_reply)
                  /\ tasks' = <<[Turn(user_id, text, lookup, respond, "handoff")
                                   EXCEPT !.notify = notify, !.remove = remove]>>
                  /\ UNCHANGED <<customer, message, before, returned, db_customers, response>>
           ELSE \E tag_lookup \in LaterAnswers, field_lookup \in LaterAnswers :
                  \E enriched \in _enrich_customer_from_lstep(
                                    lstep_client, loaded.context.customer,
                                    get_friend(lstep, user_id, tag_lookup),
                                    get_friend(lstep, user_id, field_lookup)) :
                    LET turn == [Turn(user_id, text, lookup, respond, "") EXCEPT
                                   !.tag_lookup = tag_lookup, !.field_lookup = field_lookup,
                                   !.loaded = loaded.context.customer, !.enriched = enriched]
                    IN  /\ message' = text
                        /\ before' = loaded.context.customer
                        /\ returned' = enriched
                        /\ IF ai_engine # "None"
                           THEN \E api_reply \in ApiReplies, sync \in LaterAnswers :
                                  \E out \in generate_response(
                                               success_cases, faqs,
                                               [loaded.context EXCEPT !.customer = enriched],
                                               text, api_reply) :
                                    /\ customer' = out.context.customer
                                    /\ db_customers' =
                                         save_customer(loaded.customers, out.context.customer)
                                    /\ lstep' =
                                         IF sync = "200"
                                         THEN WithTags(lstep, user_id,
                                                       sync_tags(lstep_client, out.context.customer))
                                         ELSE lstep
                                    /\ db_messages' =
                                         save_message(stored,
                                                      Message(user_id, "assistant", out.response))
                                    /\ response' = out.response
                                    /\ replies' = reply_message(replies, user_id, out.response)
                                    /\ tasks' = <<[turn EXCEPT !.branch = "generated"]>>
                           ELSE /\ customer' = enriched
                                /\ db_customers' = loaded.customers
                                /\ db_messages' = stored
                                /\ replies' = reply_message(replies, user_id, not_initialized_reply)
                                /\ tasks' = <<[turn EXCEPT !.branch = "not_initialized"]>>
                                /\ UNCHANGED <<response, lstep>>

\* Lstep gives the friend the AI mode tag (again): a step of Lstep's own
\* scenarios or staff, outside this program.
LstepSetsAiModeTag(user_id) ==
  /\ pc = "serving"
  /\ ~InList(ai_mode_tag, lstep.friends[user_id].tags)
  /\ lstep' = WithTags(lstep, user_id, <<ai_mode_tag>>)
  /\ UNCHANGED <<extractVars, searchVars, storeVars, chatVars, handlerVars,
                 lstep_client, line_handler, modules, http>>

NextServer ==
  \/ \E lstep_enabled \in BOOLEAN : Startup(lstep_enabled)
  \/ \E req \in Requests : Webhook(req)
  \/ \E user_id \in ServerUsers, text \in ServerInputs : HandleTextMessage(user_id, text)
  \/ \E user_id \in ServerUsers : LstepSetsAiModeTag(user_id)

SpecServer == InitServer /\ [][NextServer]_vars

---------------------------------------------------------------------------
(* Properties of the profile extractor, under SpecExtract *)

\* The four personas _estimate_persona can determine.
Determinable == PersonaType \ {UNKNOWN}

\* C1: persona stability.  An analyze_message call on a profile whose
\* persona is not Unknown leaves the persona as it was, whatever the
\* utterance; a call that changes the persona started from Unknown and ended
\* at one of the four determinable personas - so that over a sequence of
\* calls the persona changes at most once.
C1_PersonaStability ==
  calls > 0 =>
    /\ before.persona # UNKNOWN => customer.persona = before.persona
    /\ customer.persona # before.persona =>
         before.persona = UNKNOWN /\ customer.persona \in Determinable

\* A call was made on a profile with a determined persona, with an utterance
\* after which the estimate for the profile is another persona.
C1_Witness ==
  /\ calls > 0
  /\ before.persona \in Determinable
  /\ customer.persona = before.persona
  /\ _estimate_persona(customer) \in Determinable \ {customer.persona}

\* C2: monotonicity.  After each analyze_message call the genres and the
\* challenges of the profile hold everything they held before the call.
C2_Monotonicity ==
  calls > 0 =>
    /\ Range(before.interest_genre) \subseteq Range(customer.interest_genre)
    /\ Range(before.challenges) \subseteq Range(customer.challenges)

\* A call on a profile that had genres and challenges, with an utterance
\* that names a genre and a challenge the profile did not have and none of
\* those it had.
C2_Witness ==
  /\ calls > 0
  /\ before.interest_genre # << >>
  /\ before.challenges # << >>
  /\ Range(_extract_genres(message)) # {}
  /\ Range(_extract_genres(message)) \cap Range(before.interest_genre) = {}
  /\ Range(_extract_challenges(message)) # {}
  /\ Range(_extract_challenges(message)) \cap Range(before.challenges) = {}
  /\ Range(customer.interest_genre) # Range(before.interest_genre)
  /\ Range(customer.challenges) # Range(before.challenges)

\* C5: occupation is first-write-wins.  A call on a profile whose occupation
\* is set leaves the occupation as it was; and analysing the utterance of the
\* last call once more gives the occupation the last call gave.
C5_OccupationFirstWriteWins ==
  calls > 0 =>
    /\ Truthy(before.occupation) => customer.occupation = before.occupation
    /\ \A again \in analyze_message(message, customer) :
         again.occupation = customer.occupation

\* A call on a profile whose occupation is set, with an utterance that
\* states another occupation.
C5_Witness ==
  /\ calls > 0
  /\ Truthy(before.occupation)
  /\ Truthy(_extract_occupation(message))
  /\ _extract_occupation(message) # before.occupation
  /\ customer.occupation = before.occupation

\* The score C6 states for persona p on profile c.
C6_Score(c, p) ==
  LET indicators == PERSONA_KEYWORDS[p].occupation
      keywords == PERSONA_KEYWORDS[p].keywords
      phrases == PERSONA_KEYWORDS[p].challenges
      genre_text == Join(Space, c.interest_genre)
      challenge_text == Join(Space, c.challenges)
  IN  (IF c.occupation # None /\ \E i \in DOMAIN indicators : InStr(indicators[i], c.occupation)
       THEN 5 ELSE 0)
      + 2 * Cardinality({i \in DOMAIN keywords : InStr(keywords[i], genre_text)})
      + 3 * Cardinality({i \in DOMAIN phrases : InStr(phrases[i], challenge_text)})

\* The largest of the four scores of profile c.
C6_MaxScore(c) == Max({C6_Score(c, p) : p \in Determinable})

\* Whether persona p stands before persona q in the order SideWorker,
\* ChildRaisingMom, BusinessOwner, SelfAchiever.
C6_Earlier(p, q) ==
  \E i, j \in 1..4 :
    /\ i < j
    /\ <<SIDE_WORKER, CHILD_RAISING_MOM, BUSINESS_OWNER, SELF_ACHIEVER>>[i] = p
    /\ <<SIDE_WORKER, CHILD_RAISING_MOM, BUSINESS_OWNER, SELF_ACHIEVER>>[j] = q

\* What C6 states the inference returns for profile c, as a predicate on the
\* returned persona r.
C6_Selected(c, r) ==
  /\ r = UNKNOWN <=> C6_MaxScore(c) = 0
  /\ r # UNKNOWN =>
       /\ r \in Determinable
       /\ C6_Score(c, r) = C6_MaxScore(c)
       /\ \A p \in Determinable : C6_Score(c, p) = C6_MaxScore(c) => ~C6_Earlier(p, r)

\* C6: persona inference.  The inference on the profile scores each
\* determinable persona 5 for an occupation indicator in the occupation
\* (once), 2 per persona keyword in the joined genres and 3 per persona
\* challenge phrase in the joined challenges; it returns Unknown exactly when
\* the largest score is 0 and otherwise the earliest persona with the largest
\* score.  A call on a profile whose persona was Unknown leaves the profile
\* with that persona; and the profile of a company employee with the
\* challenges "no time" and "wants a side income" is inferred a SideWorker.
C6_PersonaInference ==
  /\ \A p \in Determinable : Scores(customer)[p] = C6_Score(customer, p)
  /\ C6_Selected(customer, _estimate_persona(customer))
  /\ (calls > 0 /\ before.persona = UNKNOWN) => C6_Selected(customer, customer.persona)
  /\ ( /\ customer.occupation = word.occ_company
       /\ customer.interest_genre = << >>
       /\ Range(customer.challenges) = {word.ch_no_time, word.ch_side_income} )
       => _estimate_persona(customer) = SIDE_WORKER

\* A call on a profile with persona Unknown after which two personas share
\* the largest score, which is not 0, and the profile has the earlier one.
C6_Witness ==
  /\ calls > 0
  /\ before.persona = UNKNOWN
  /\ C6_MaxScore(customer) > 0
  /\ Cardinality({p \in Determinable : C6_Score(customer, p) = C6_MaxScore(customer)}) >= 2
  /\ customer.persona \in Determinable

---------------------------------------------------------------------------
(* Properties of the knowledge ranker, under SpecSearch *)

\* The store the call searched, and the score the call gave its j-th record.
SearchedStore == IF query.fn = "search_success_cases" THEN success_cases ELSE faqs

ScoreAt(j) ==
  IF query.fn = "search_success_cases"
  THEN CaseScore(success_cases[j], query)
  ELSE FaqScore(faqs[j], query)

\* The ids the call was told to leave out.
ExcludedIds == IF query.exclude_ids = NoneList THEN {} ELSE Range(query.exclude_ids)

\* The records of the searched store that are not excluded and score above 0.
Eligible ==
  {j \in DOMAIN SearchedStore :
     /\ query.fn = "search_success_cases" => SearchedStore[j].id \notin ExcludedIds
     /\ ScoreAt(j) > 0}

\* C4: exclusion.  No record whose id is in exclude_ids is in the result of
\* search_success_cases, whatever the other arguments are.
C4_Exclusion ==
  (pc = "done" /\ query.fn = "search_success_cases") =>
    \A i \in DOMAIN results : success_cases[results[i]].id \notin ExcludedIds

\* A call that returned records, fewer than the limit, while a record that
\* scores above 0 is named second in exclude_ids.
C4_Witness ==
  /\ pc = "done"
  /\ query.fn = "search_success_cases"
  /\ results # << >>
  /\ Len(results) < query.limit
  /\ Len(query.exclude_ids) = 2
  /\ \E j \in DOMAIN success_cases :
       success_cases[j].id = query.exclude_ids[2] /\ ScoreAt(j) > 0

\* C7: order.  Both searches return the records in non-increasing score
\* order, and records of equal score in the order in which the store holds
\* them (so the arguments and the store fix the sequence).
C7_Order ==
  pc = "done" =>
    \A i, j \in DOMAIN results :
      i < j =>
        \/ ScoreAt(results[i]) > ScoreAt(results[j])
        \/ ScoreAt(results[i]) = ScoreAt(results[j]) /\ results[i] < results[j]

\* A call that returned two records of equal score behind a record of a
\* higher score.
C7_Witness ==
  /\ pc = "done"
  /\ Len(results) >= 3
  /\ ScoreAt(results[1]) > ScoreAt(results[2])
  /\ ScoreAt(results[2]) = ScoreAt(results[3])

\* C8: count.  For a limit >= 0 both searches return min(limit, N) distinct
\* records, N the number of non-excluded records that score above 0; every
\* returned record is one of these, and no such record left out scores higher
\* than a returned one.
C8_Count ==
  (pc = "done" /\ query.limit >= 0) =>
    /\ Len(results) =
         (IF query.limit < Cardinality(Eligible) THEN query.limit ELSE Cardinality(Eligible))
    /\ Cardinality(Range(results)) = Len(results)
    /\ Range(results) \subseteq Eligible
    /\ \A j \in Eligible \ Range(results) :
         \A i \in DOMAIN results : ScoreAt(j) <= ScoreAt(results[i])

\* A call with a limit > 0 and more eligible records than the limit.
C8_Witness ==
  /\ pc = "done"
  /\ query.limit > 0
  /\ Cardinality(Eligible) > query.limit
  /\ Len(results) = query.limit

\* The parts of the testimonial score as C9 states them.
C9_PersonaPart(case, q) ==
  IF q.persona # None /\ q.persona \in Range(case.related_personas) THEN 3 ELSE 0

C9_ChallengePart(case, q) ==
  IF q.challenges = NoneList THEN 0
  ELSE 2 * Cardinality({i \in DOMAIN q.challenges :
                          \E r \in Range(case.related_challenges) : InStr(q.challenges[i], r)})

C9_KeywordPart(case, q) ==
  IF q.keywords = NoneList THEN 0
  ELSE Cardinality({i \in DOMAIN q.keywords : q.keywords[i] \in Range(case.keywords)})

\* The genre part: 2 if the genre is supplied and is, letter case aside, a
\* substring of the record's genre.
C9_GenrePartAsStated(case, q) ==
  IF q.genre # None /\ InStr(Lower(q.genre), Lower(case.genre)) THEN 2 ELSE 0

\* The genre part with an empty genre counted as absent.
C9_GenrePart(case, q) ==
  IF q.genre # None /\ q.genre # << >> /\ InStr(Lower(q.genre), Lower(case.genre)) THEN 2 ELSE 0

C9_ScoreAsStated(case, q) ==
  C9_PersonaPart(case, q) + C9_ChallengePart(case, q) + C9_GenrePartAsStated(case, q)
    + C9_KeywordPart(case, q)

C9_Score(case, q) ==
  C9_PersonaPart(case, q) + C9_ChallengePart(case, q) + C9_GenrePart(case, q)
    + C9_KeywordPart(case, q)

\* C9 as stated: the score search_success_cases gives a non-excluded
\* testimonial is 3 for a persona in related_personas, plus 2 per supplied
\* challenge that is a substring of a related challenge, plus 2 for a
\* supplied genre that is a case-insensitive substring of the genre, plus 1
\* per supplied keyword among the keywords; so that the records returned
\* below the limit are the non-excluded ones for which this sum is above 0.
C9_AsStated ==
  (pc = "done" /\ query.fn = "search_success_cases") =>
    /\ \A j \in DOMAIN success_cases :
         success_cases[j].id \notin ExcludedIds =>
           CaseScore(success_cases[j], query) = C9_ScoreAsStated(success_cases[j], query)
    /\ Len(results) < query.limit =>
         Range(results) =
           {j \in DOMAIN success_cases :
              /\ success_cases[j].id \notin ExcludedIds
              /\ C9_ScoreAsStated(success_cases[j], query) > 0}

\* C9, amended: the same sum, where the genre adds 2 only if it is supplied,
\* is not the empty string and is a case-insensitive substring of the
\* record's genre.
C9_CaseScore ==
  (pc = "done" /\ query.fn = "search_success_cases") =>
    /\ \A j \in DOMAIN success_cases :
         success_cases[j].id \notin ExcludedIds =>
           CaseScore(success_cases[j], query) = C9_Score(success_cases[j], query)
    /\ Len(results) < query.limit =>
         Range(results) =
           {j \in DOMAIN success_cases :
              /\ success_cases[j].id \notin ExcludedIds
              /\ C9_Score(success_cases[j], query) > 0}
    /\ \A i, j \in DOMAIN results :
         i < j => C9_Score(success_cases[results[i]], query)
                    >= C9_Score(success_cases[results[j]], query)

\* A call that returned a record to whose score all four parts add, the
\* genre through letters of another case.
C9_Witness ==
  /\ pc = "done"
  /\ query.fn = "search_success_cases"
  /\ \E i \in DOMAIN results :
       LET case == success_cases[results[i]]
       IN  /\ C9_PersonaPart(case, query) = 3
           /\ C9_ChallengePart(case, query) >= 2
           /\ C9_GenrePart(case, query) = 2
           /\ ~InStr(query.genre, case.genre)
           /\ C9_KeywordPart(case, query) >= 1

\* The parts of the FAQ score as C10 states them.
C10_KeywordPart(faq, q) ==
  IF q.keywords = NoneList THEN 0
  ELSE 3 * Cardinality({i \in DOMAIN q.keywords : InStr(q.keywords[i], faq.question)})
       + 2 * Cardinality({i \in DOMAIN q.keywords : q.keywords[i] \in Range(faq.keywords)})
       + Cardinality({i \in DOMAIN q.keywords : InStr(q.keywords[i], faq.answer)})

C10_CategoryPartAsStated(faq, q) ==
  IF q.category # None /\ InStr(q.category, faq.category) THEN 2 ELSE 0

\* The category part with an empty category counted as absent.
C10_CategoryPart(faq, q) ==
  IF q.category # None /\ q.category # << >> /\ InStr(q.category, faq.category) THEN 2 ELSE 0

C10_ScoreAsStated(faq, q) == C10_CategoryPartAsStated(faq, q) + C10_KeywordPart(faq, q)

C10_Score(faq, q) == C10_CategoryPart(faq, q) + C10_KeywordPart(faq, q)

\* C10 as stated: the score search_faqs gives an FAQ is 2 for a supplied
\* category that is a substring of its category, plus per supplied keyword 3
\* if it is in the question, 2 if it is among the keywords and 1 if it is in
\* the answer, the three adding up; the FAQs returned below the limit are
\* those for which this sum is above 0.
C10_AsStated ==
  (pc = "done" /\ query.fn = "search_faqs") =>
    /\ \A j \in DOMAIN faqs : FaqScore(faqs[j], query) = C10_ScoreAsStated(faqs[j], query)
    /\ Len(results) < query.limit =>
         Range(results) = {j \in DOMAIN faqs : C10_ScoreAsStated(faqs[j], query) > 0}

\* C10, amended: the same sum, where the category adds 2 only if it is
\* supplied, is not the empty string and is a substring of the FAQ's
\* category; no FAQ whose sum is 0 is returned.
C10_FaqScore ==
  (pc = "done" /\ query.fn = "search_faqs") =>
    /\ \A j \in DOMAIN faqs : FaqScore(faqs[j], query) = C10_Score(faqs[j], query)
    /\ \A i \in DOMAIN results : C10_Score(faqs[results[i]], query) > 0
    /\ Len(results) < query.limit =>
         Range(results) = {j \in DOMAIN faqs : C10_Score(faqs[j], query) > 0}
    /\ \A i, j \in DOMAIN results :
         i < j => C10_Score(faqs[results[i]], query) >= C10_Score(faqs[results[j]], query)

\* A call that returned an FAQ for which one keyword is in the question,
\* among the keywords and in the answer, while another FAQ scored 0 and was
\* not returned.
C10_Witness ==
  /\ pc = "done"
  /\ query.fn = "search_faqs"
  /\ query.keywords # NoneList
  /\ \E i \in DOMAIN results, k \in DOMAIN query.keywords :
       /\ InStr(query.keywords[k], faqs[results[i]].question)
       /\ query.keywords[k] \in Range(faqs[results[i]].keywords)
       /\ InStr(query.keywords[k], faqs[results[i]].answer)
  /\ Len(results) < query.limit
  /\ \E j \in DOMAIN faqs : j \notin Range(results) /\ C10_Score(faqs[j], query) = 0

---------------------------------------------------------------------------
(* Properties of the conversation, under Spec *)

\* C3: a testimonial that a turn surfaced (the ranking returned it and it
\* went into the knowledge of the prompt) is recorded as surfaced for the
\* conversation, so no later turn of the conversation surfaces it again.
C3_SurfacedOnce ==
  \A i, j \in DOMAIN surfaced_log :
    i < j => Range(surfaced_log[i]) \cap Range(surfaced_log[j]) = {}

---------------------------------------------------------------------------
(* Properties of one analyze_message call, under SpecAnalyze *)

\* Whether the pattern of the i-th pair occurs in the utterance.
C11_Occurs(i, msg) == \E a \in Range(patterns[i].pattern) : InStr(a, msg)

\* What C11 states occupation extraction returns for the utterance, as a
\* predicate on the returned value.
C11_FirstPair(msg, occ) ==
  \/ /\ \A i \in DOMAIN patterns : ~C11_Occurs(i, msg)
     /\ occ = None
  \/ \E i \in DOMAIN patterns :
       /\ C11_Occurs(i, msg)
       /\ \A j \in 1..(i - 1) : ~C11_Occurs(j, msg)
       /\ occ = patterns[i].occupation

C12_Genres(msg) ==
  {GENRE_KEYWORDS[i].genre : i \in {n \in DOMAIN GENRE_KEYWORDS :
      \E k \in Range(GENRE_KEYWORDS[n].keywords) : InStr(k, msg)}}

C12_Challenges(msg) == {ch \in Range(CHALLENGE_KEYWORDS) : InStr(ch, msg)}

\* C12: exact accretion.  After analyze_message the genres are the genres
\* before united with exactly the categories that have a keyword variant in
\* the utterance, the challenges are the challenges before united with
\* exactly the phrases of the list that occur in the utterance, and no
\* element is in a list twice.
C12_ExactAccretion ==
  calls > 0 =>
    /\ Range(customer.interest_genre) = Range(before.interest_genre) \cup C12_Genres(message)
    /\ Range(customer.challenges) = Range(before.challenges) \cup C12_Challenges(message)
    /\ Cardinality(Range(customer.interest_genre)) = Len(customer.interest_genre)
    /\ Cardinality(Range(customer.challenges)) = Len(customer.challenges)

\* A call with an utterance that names a genre the profile has, a genre it
\* has not, and a challenge it has not.
C12_Witness ==
  /\ calls > 0
  /\ C12_Genres(message) \cap Range(before.interest_genre) # {}
  /\ C12_Genres(message) \ Range(before.interest_genre) # {}
  /\ before.challenges # << >>
  /\ C12_Challenges(message) \ Range(before.challenges) # {}

\* C13 as stated: analyze_message is pure.  The profile object the caller
\* passed has the occupation, genres, challenges and persona after the call
\* that it had before.
C13_Pure ==
  calls > 0 =>
    /\ customer.occupation = before.occupation
    /\ customer.interest_genre = before.interest_genre
    /\ customer.challenges = before.challenges
    /\ customer.persona = before.persona

\* C13, amended: analyze_message updates the profile object it is passed and
\* returns that object.  After the call the caller's object has the
\* occupation, genres, challenges and persona of the returned profile.
C13_InPlace ==
  calls > 0 =>
    /\ customer.occupation = returned.occupation
    /\ customer.interest_genre = returned.interest_genre
    /\ customer.challenges = returned.challenges
    /\ customer.persona = returned.persona

\* A call that changed the occupation, the genres, the challenges and the
\* persona.
C13_Witness ==
  /\ calls > 0
  /\ returned.occupation # before.occupation
  /\ returned.interest_genre # before.interest_genre
  /\ returned.challenges # before.challenges
  /\ returned.persona # before.persona

\* Whether nothing of the three tables occurs in the utterance.
C14_NoMatch(msg) ==
  /\ \A i \in DOMAIN patterns : ~C11_Occurs(i, msg)
  /\ C12_Genres(msg) = {}
  /\ C12_Challenges(msg) = {}

\* C14: no failure, no-match, frame.  A call on any profile with any
\* utterance has an outcome; a call with
\* an utterance in which no occupation pattern, no genre keyword and no
\* challenge phrase occurs leaves occupation, genres and challenges as they
\* were; and every call leaves user id, display name, goals, status and
\* source as they were.
C14_NoMatchAndFrame ==
  /\ pc = "analyze" => analyze_message(message, customer) # {}
  /\ calls > 0 =>
    /\ C14_NoMatch(message) =>
         /\ customer.occupation = before.occupation
         /\ customer.interest_genre = before.interest_genre
         /\ customer.challenges = before.challenges
    /\ customer.user_id = before.user_id
    /\ customer.display_name = before.display_name
    /\ customer.goals = before.goals
    /\ customer.status = before.status
    /\ customer.source = before.source

\* A call with an utterance in which nothing occurs, on a profile that has a
\* display name, an occupation, two genres and a challenge.
C14_Witness ==
  /\ calls > 0
  /\ C14_NoMatch(message)
  /\ before.display_name # None
  /\ before.occupation # None
  /\ Len(before.interest_genre) >= 2
  /\ before.challenges # << >>
  /\ customer = before

---------------------------------------------------------------------------
(* Properties of the generation payload, under SpecPrompt *)

\* The customer_info lines of the system message of the payload.
C18_Lines == request[1].content.context_prompt.customer_info

\* How many lines render the field.
C18_Count(field) == Cardinality({i \in DOMAIN C18_Lines : C18_Lines[i].field = field})

\* C18 as stated: the profile summary always has a persona line and a
\* status line, the persona line of an undetermined persona showing the
\* placeholder, and a line for name, occupation, genres, challenges and
\* goals exactly when the field is populated.
C18_PersonaAlwaysRendered ==
  pc = "prompted" =>
    /\ C18_Count("persona") = 1
    /\ C18_Count("status") = 1
    /\ \A i \in DOMAIN C18_Lines :
         /\ C18_Lines[i].field = "persona" => C18_Lines[i].value = customer.persona
         /\ C18_Lines[i].field = "status" => C18_Lines[i].value = customer.status
    /\ C18_Count("display_name") = (IF Truthy(customer.display_name) THEN 1 ELSE 0)
    /\ C18_Count("occupation") = (IF Truthy(customer.occupation) THEN 1 ELSE 0)
    /\ C18_Count("interest_genre") = (IF NonEmpty(customer.interest_genre) THEN 1 ELSE 0)
    /\ C18_Count("challenges") = (IF NonEmpty(customer.challenges) THEN 1 ELSE 0)
    /\ C18_Count("goals") = (IF Truthy(customer.goals) THEN 1 ELSE 0)

\* The rows of the user in the messages table, oldest first.
C19_History == SelectSeq(db_messages, LAMBDA r : r.user_id = test_user_id)

\* How many history entries the payload holds.
C19_Kept == IF Len(C19_History) < 10 THEN Len(C19_History) ELSE 10

\* C19: the payload.  The payload is one system message, then the 10 most
\* recent history entries of the user (all of them when there are fewer),
\* oldest first, then the current user message; no older entry is in it and
\* no other message has the role system.
C19_Payload ==
  pc = "prompted" =>
    /\ Len(request) = C19_Kept + 2
    /\ request[1].role = "system"
    /\ \A i \in 2..Len(request) : request[i].role # "system"
    /\ \A i \in 1..C19_Kept :
         LET row == C19_History[Len(C19_History) - C19_Kept + i]
         IN  request[1 + i] = [role |-> row.role, content |-> row.content]
    /\ request[Len(request)] = [role |-> "user", content |-> message]
    /\ \A j \in 1..(Len(C19_History) - C19_Kept) :
         \A i \in 2..Len(request) : request[i].content # C19_History[j].content

\* A payload built when the user has more rows than get_conversation_history
\* reads, among rows of another user.
C19_Witness ==
  /\ pc = "prompted"
  /\ Len(C19_History) > history_limit
  /\ Len(db_messages) > Len(C19_History)
  /\ Len(request) = 12

---------------------------------------------------------------------------
(* Properties of the event handlers, under SpecHandler *)

\* Whether the coroutine is a text-message turn that has loaded the profile
\* and has not yet saved it.
C15_InTurn(t) ==
  /\ tasks[t].kind = "text"
  /\ tasks[t].pc \in {"save_default", "get_history", "generate", "save_customer"}

\* Whether the coroutine is a text-message turn that ran the extraction and
\* has saved the profile.
C15_Completed(t) ==
  /\ tasks[t].kind = "text"
  /\ tasks[t].api_calls > 0
  /\ tasks[t].pc \in {"save_assistant", "reply", "done"}

\* C15 as stated: turns are serialized per user.  No two text-message turns
\* of one user are between profile load and profile save at once, and when
\* two turns of one user have completed, the stored profile has the genres
\* and challenges extracted by both.
C15_Serialized ==
  \A t1, t2 \in DOMAIN tasks :
    (t1 # t2 /\ tasks[t1].user_id = tasks[t2].user_id) =>
      /\ ~(C15_InTurn(t1) /\ C15_InTurn(t2))
      /\ (C15_Completed(t1) /\ C15_Completed(t2)) =>
           /\ tasks[t1].user_id \in DOMAIN db_customers
           /\ C12_Genres(tasks[t1].text) \cup C12_Genres(tasks[t2].text)
                \subseteq Range(db_customers[tasks[t1].user_id].interest_genre)
           /\ C12_Challenges(tasks[t1].text) \cup C12_Challenges(tasks[t2].text)
                \subseteq Range(db_customers[tasks[t1].user_id].challenges)

\* The row of the user in the customers table, and the rows of the user in
\* a table of rows.
C16_Row(table, u) == IF u \in DOMAIN table THEN table[u] ELSE NoCustomer

C16_Of(table, u) == SelectSeq(table, LAMBDA r : r.user_id = u)

\* What a step of coroutine t leaves alone: everything of every other user.
C16_Frame(t) ==
  \A u \in HandlerUsers \ {tasks[t].user_id} :
    /\ C16_Row(db_customers', u) = C16_Row(db_customers, u)
    /\ C16_Of(db_messages', u) = C16_Of(db_messages, u)
    /\ C16_Of(db_mentioned_cases', u) = C16_Of(db_mentioned_cases, u)
    /\ C16_Of(replies', u) = C16_Of(replies, u)
    /\ \A s \in DOMAIN tasks : tasks[s].user_id = u => tasks'[s] = tasks[s]

C17_Reset(old, new) ==
  \/ old.occupation # None /\ new.occupation = None
  \/ old.interest_genre # << >> /\ new.interest_genre = << >>
  \/ old.challenges # << >> /\ new.challenges = << >>
  \/ old.persona # UNKNOWN /\ new.persona = UNKNOWN

\* C17 as stated: a stored profile is never deleted or reset.  No step
\* removes the row of a user, and no step replaces a stored occupation,
\* stored genres, stored challenges or a determined persona by the default.
C17_NeverReset ==
  [][\A u \in DOMAIN db_customers :
       /\ u \in DOMAIN db_customers'
       /\ ~C17_Reset(db_customers[u], db_customers'[u])]_vars

\* Whether the coroutine is a text-message turn whose chat completion call
\* raised.
C20_Failed(t) == tasks[t].kind = "text" /\ tasks[t].api_error

\* C20: a failed generation call.  The turn made one call and goes on to
\* save the profile; its response is the fallback apology; the profile it
\* holds has what the utterance gives; the save_customer step stores that
\* profile; and when the turn has ended the apology is among the user's
\* assistant messages and among the replies to the user.
C20_FallbackOnFailure ==
  /\ [](\A t \in DOMAIN tasks :
          C20_Failed(t) =>
            /\ tasks[t].api_calls = 1
            /\ tasks[t].pc \in {"save_customer", "save_assistant", "reply", "done"}
            /\ tasks[t].pc # "done" =>
                 /\ tasks[t].response = fallback_response
                 /\ C12_Genres(tasks[t].text)
                      \subseteq Range(tasks[t].context.customer.interest_genre)
                 /\ C12_Challenges(tasks[t].text)
                      \subseteq Range(tasks[t].context.customer.challenges)
                 /\ tasks[t].loaded.occupation = None =>
                      C11_FirstPair(tasks[t].text, tasks[t].context.customer.occupation)
            /\ tasks[t].pc = "done" =>
                 /\ \E i \in DOMAIN db_messages :
                      db_messages[i] = Message(tasks[t].user_id, "assistant", fallback_response)
                 /\ \E i \in DOMAIN replies :
                      replies[i] = [user_id |-> tasks[t].user_id, text |-> fallback_response])
  /\ [][\A t \in DOMAIN tasks :
          (C20_Failed(t) /\ tasks[t].pc = "save_customer" /\ tasks'[t].pc = "save_assistant")
            => db_customers'[tasks[t].user_id] = tasks[t].context.customer]_vars

\* A turn whose call raised has ended, and the stored profile of the user
\* has the occupation and the genre of the utterance.
C20_Witness ==
  \E t \in DOMAIN tasks :
    /\ C20_Failed(t)
    /\ tasks[t].pc = "done"
    /\ tasks[t].text = utterance.wife
    /\ tasks[t].user_id \in DOMAIN db_customers
    /\ db_customers[tasks[t].user_id].occupation = word.occ_housewife
    /\ C12_Genres(utterance.wife) \subseteq Range(db_customers[tasks[t].user_id].interest_genre)
    /\ replies[Len(replies)].text = fallback_response

\* C29: on every profile that analyze_message calls alone have built from a
\* fresh profile, the persona is Unknown exactly when each of the four
\* persona scores of the profile is 0; a determined persona has a score
\* above 0 on the profile.
C29_UnknownIffNoScore ==
  /\ customer.persona = UNKNOWN
       <=> \A p \in Range(PersonaOrder) : Scores(customer)[p] = 0
  /\ customer.persona # UNKNOWN => Scores(customer)[customer.persona] > 0

\* A profile whose persona was determined went through a further call that
\* added a genre to it.
C29_Witness ==
  /\ calls >= 2
  /\ before.persona # UNKNOWN
  /\ Range(customer.interest_genre) # Range(before.interest_genre)


\* The labels _extract_genres can put on a profile.
C30_GenreLabels == {GENRE_KEYWORDS[i].genre : i \in DOMAIN GENRE_KEYWORDS}

\* C30: with the shipped tables no sequence of analyze_message calls from a
\* fresh profile assigns the persona SelfAchiever: its score is 0 on every
\* profile the calls build.  SelfAchiever has no occupation indicators, none
\* of its keywords is in the joined genre labels the extractor produces and
\* none of its challenge phrases is in the joined challenge phrases the
\* extractor produces (stated on the tables for every label and phrase and
\* every two of them joined, and on every profile built).
C30_NeverSelfAchiever ==
  /\ customer.persona # SELF_ACHIEVER
  /\ returned.persona # SELF_ACHIEVER
  /\ Scores(customer)[SELF_ACHIEVER] = 0
  /\ \A i \in DOMAIN PERSONA_KEYWORDS[SELF_ACHIEVER].keywords :
       ~InStr(PERSONA_KEYWORDS[SELF_ACHIEVER].keywords[i], Join(Space, customer.interest_genre))
  /\ \A i \in DOMAIN PERSONA_KEYWORDS[SELF_ACHIEVER].challenges :
       ~InStr(PERSONA_KEYWORDS[SELF_ACHIEVER].challenges[i], Join(Space, customer.challenges))
  /\ calls = 0 =>
       /\ PERSONA_KEYWORDS[SELF_ACHIEVER].occupation = << >>
       /\ \A i \in DOMAIN PERSONA_KEYWORDS[SELF_ACHIEVER].keywords :
            \A g1, g2 \in C30_GenreLabels :
               /\ ~InStr(PERSONA_KEYWORDS[SELF_ACHIEVER].keywords[i], g1)
               /\ ~InStr(PERSONA_KEYWORDS[SELF_ACHIEVER].keywords[i], Join(Space, <<g1, g2>>))
       /\ \A i \in DOMAIN PERSONA_KEYWORDS[SELF_ACHIEVER].challenges :
            \A c1, c2 \in Range(CHALLENGE_KEYWORDS) :
               /\ ~InStr(PERSONA_KEYWORDS[SELF_ACHIEVER].challenges[i], c1)
               /\ ~InStr(PERSONA_KEYWORDS[SELF_ACHIEVER].challenges[i], Join(Space, <<c1, c2>>))

\* A call on a profile with persona Unknown, with an utterance that holds
\* keywords of SelfAchiever and one of its challenge phrases, put a challenge
\* on the profile (the part of the phrase that CHALLENGE_KEYWORDS lists), and
\* the persona is not SelfAchiever.
C30_Witness ==
  /\ calls >= 1
  /\ message = utterance.dream
  /\ before.persona = UNKNOWN
  /\ \E i \in DOMAIN PERSONA_KEYWORDS[SELF_ACHIEVER].challenges :
       InStr(PERSONA_KEYWORDS[SELF_ACHIEVER].challenges[i], message)
  /\ \E i \in DOMAIN PERSONA_KEYWORDS[SELF_ACHIEVER].keywords :
       InStr(PERSONA_KEYWORDS[SELF_ACHIEVER].keywords[i], message)
  /\ NonEmpty(customer.challenges)
  /\ customer.persona # SELF_ACHIEVER

\* C21: the knowledge store is read-only after its load.  Whatever the
\* arguments, search_success_cases, search_faqs and get_case_by_id leave
\* the testimonial collection and the FAQ collection as they were: the same
\* records, in the same order, with the same fields.
C21_ReadOnly ==
  [][success_cases' = success_cases /\ faqs' = faqs]_vars

\* A search returned records in another order than the store holds them (it
\* sorted them by score), and the store is one that was loaded from a file.
C21_Witness ==
  /\ pc = "done"
  /\ success_cases = file_cases
  /\ \E i, j \in DOMAIN results : i < j /\ results[i] > results[j]

\* The entries of the payload between the system message and the final user
\* message, and the conversation as it stood before the turn's utterance
\* (the turn appended the utterance and the response to it).
C27_History == SubSeq(request, 2, Len(request) - 1)

C27_Prior == SubSeq(messages, 1, Len(messages) - 2)

\* C27: in the payload built for a turn the current user utterance occurs
\* once, as the final user message: the history entries of the payload are
\* the last ten messages of the conversation before the utterance, so an
\* utterance that is new to the conversation is in no history entry.
C27_UtteranceOnce ==
  request # << >> =>
    /\ request[Len(request)] = [role |-> "user", content |-> message]
    /\ C27_History =
         [i \in DOMAIN Last10(C27_Prior) |->
            [role |-> Last10(C27_Prior)[i].role, content |-> Last10(C27_Prior)[i].content]]
    /\ (\A i \in DOMAIN C27_Prior : C27_Prior[i].content # message) =>
          Cardinality({i \in DOMAIN request :
                         request[i].role = "user" /\ request[i].content = message}) = 1

---------------------------------------------------------------------------
(* Properties of the server, under SpecServer *)

\* Startup has completed: initialize_ai_engine and initialize_line_handler
\* were called.
Started == modules.ai_engine = "AIEngine" /\ modules.line_handler = "LineHandler"

\* C22: after startup has completed, a text message of a user for whom the
\* AI responds is answered through ai_engine.generate_response (with the
\* generated reply or the fallback apology), and never through the branch
\* that replies that the system is being prepared.
C22_AnsweredByEngine ==
  \A i \in DOMAIN tasks :
    (Started /\ tasks[i].kind = "text" /\ tasks[i].respond) =>
       /\ tasks[i].branch # "not_initialized"
       /\ replies[Len(replies)].text # not_initialized_reply
       /\ ~_is_handoff_request(tasks[i].text) =>
            /\ tasks[i].branch = "generated"
            /\ replies[Len(replies)].text \in {generated_reply, fallback_response}

\* C23: after startup, /webhook answers a request without X-Line-Signature
\* with status 400, answers a request whose signature does not verify
\* against the channel secret with status 400 and hands none of its events
\* to the event handlers, and answers with status ok only a request whose
\* signature is valid.
C23_SignatureChecked ==
  (Started /\ http.status # 0) =>
     /\ http.request.signature = NoSignature => http.status = 400
     /\ ~verify_signature(http.request.body, http.request.signature) =>
          http.status = 400 /\ ~http.dispatched
     /\ http.status = 200 => verify_signature(http.request.body, http.request.signature)

\* The step is a text message handler run, of the user whose Lstep tags
\* hold the AI mode tag or not.
C24_TurnStep == tasks' # tasks

C24_Tagged == InList(ai_mode_tag, lstep.friends[tasks'[1].user_id].tags)

\* C24: AI-mode gating.  When the Lstep client is configured and the Lstep
\* tags of the user do not hold the AI mode tag, a text message of the user
\* has no effect: no message is stored, the profile stays as it is, nothing
\* is generated and no reply is sent.  When the Lstep client is not
\* configured, the AI responds to every text message.
C24_Gating ==
  [][C24_TurnStep =>
       /\ (modules.lstep_client = "LstepClient" /\ ~C24_Tagged) =>
            /\ tasks'[1].branch = "ignored"
            /\ db_messages' = db_messages
            /\ db_customers' = db_customers
            /\ replies' = replies
       /\ modules.lstep_client = "None" =>
            /\ tasks'[1].respond
            /\ db_messages' # db_messages
            /\ Len(replies') = Len(replies) + 1]_vars

\* C25: when the Lstep client is configured and the lookup of the user's
\* tags fails, with a request error or an answer that is not 200,
\* _should_ai_respond returns True and the message is answered.
C25_FallbackOnLookupFailure ==
  \A i \in DOMAIN tasks :
    (tasks[i].kind = "text" /\ tasks[i].lookup \in {"503", "error"}) =>
       tasks[i].respond /\ tasks[i].branch # "ignored"

\* C26: handoff.  A text message with a handoff keyword, of a user for whom
\* the AI responds, is stored, staff is notified and the AI mode tag removed
\* when Lstep is configured, and the fixed handoff reply is sent; the turn
\* extracts nothing, saves no profile and generates nothing.  When the tag
\* is removed, no later message of the user is answered while the tag is
\* not on the user again.
C26_Handoff ==
  [][C24_TurnStep =>
       /\ (tasks'[1].respond /\ _is_handoff_request(tasks'[1].text)) =>
            /\ tasks'[1].branch = "handoff"
            /\ db_messages' =
                 Append(db_messages, Message(tasks'[1].user_id, "user", tasks'[1].text))
            /\ replies' = Append(replies, [user_id |-> tasks'[1].user_id, text |-> handoff_reply])
            /\ db_customers' = db_customers
            /\ customer' = customer
            /\ response' = response
            /\ modules.lstep_client = "LstepClient" =>
                 /\ tasks'[1].notify # "none"
                 /\ tasks'[1].remove # "none"
                 /\ tasks'[1].notify = "200" =>
                      lstep'.notifications # lstep.notifications
                 /\ tasks'[1].remove = "200" =>
                      ~InList(ai_mode_tag, lstep'.friends[tasks'[1].user_id].tags)
       /\ (modules.lstep_client = "LstepClient" /\ ~C24_Tagged) =>
            tasks'[1].branch = "ignored" /\ replies' = replies]_vars

\* The Customer the last text message handler gave to
\* _enrich_customer_from_lstep, and the one it got back.
C28_Ran == tasks # << >> /\ tasks[1].branch \in {"generated", "not_initialized"}

C28_Before == tasks[1].loaded

C28_After == tasks[1].enriched

\* C28: enrichment from Lstep keeps the accretion rules of the profile.  It
\* sets source, occupation and goals only where the field is unset, sets
\* the persona only where it is Unknown, only adds to the genres, and leaves
\* every other field alone; when the Lstep lookups fail it returns the
\* profile as it was.
C28_EnrichmentAccretes ==
  C28_Ran =>
    /\ Truthy(C28_Before.source) => C28_After.source = C28_Before.source
    /\ Truthy(C28_Before.occupation) => C28_After.occupation = C28_Before.occupation
    /\ Truthy(C28_Before.goals) => C28_After.goals = C28_Before.goals
    /\ C28_Before.persona # UNKNOWN => C28_After.persona = C28_Before.persona
    /\ Range(C28_Before.interest_genre) \subseteq Range(C28_After.interest_genre)
    /\ C28_After = [C28_Before EXCEPT !.source = C28_After.source,
                                      !.occupation = C28_After.occupation,
                                      !.goals = C28_After.goals,
                                      !.persona = C28_After.persona,
                                      !.interest_genre = C28_After.interest_genre]
    /\ (tasks[1].tag_lookup # "200" /\ tasks[1].field_lookup # "200") =>
          C28_After = C28_Before

\* The handler enriched a profile that had an occupation, a persona and a
\* genre, from a friend record with another occupation, a persona tag and a
\* new genre: the profile got the source and the genre, and kept the rest.
C28_Witness ==
  /\ C28_Ran
  /\ tasks[1].tag_lookup = "200"
  /\ tasks[1].field_lookup = "200"
  /\ Truthy(C28_Before.occupation)
  /\ C28_Before.persona # UNKNOWN
  /\ HasKey(lstep.friends[tasks[1].user_id].custom_fields, "occupation")
  /\ ValueOf(lstep.friends[tasks[1].user_id].custom_fields, "occupation") # C28_Before.occupation
  /\ C28_After.occupation = C28_Before.occupation
  /\ C28_After.source # C28_Before.source
  /\ Range(C28_After.interest_genre) # Range(C28_Before.interest_genre)
=============================================================================
